---------------------------- MODULE Spec2Model ----------------------------
(***************************************************************************)
(* Model of the numeric routines of the fbonnardot package:                *)
(*   syncAv     (cyclostationarity/syncAv.py)                              *)
(*   circShift  (signalproc/circShift.py)                                  *)
(*   peakDetection (detection/peakDetection.py)                            *)
(*   synchronisation2 (speed/synchronisation2.py)                          *)
(*   part_2     (detection/globalMinMax.py)                                *)
(* Each routine is a sequential procedure; its steps are the actions of a  *)
(* specification of its own (SpecSyncAv, SpecCircShift, ...) whose initial *)
(* states enumerate the arguments of one call.                             *)
(*                                                                         *)
(* Arrays are records [ndim, rows]: a 1-D array of n samples is            *)
(* [ndim |-> 1, rows |-> <<v>>], a 2-D array of r rows is                   *)
(* [ndim |-> 2, rows |-> <<v1, ..., vr>>].  Sequences are 1-based: python   *)
(* index i is index i+1 here.                                              *)
(* A block size or a shift is kept as twice its value (k2), so that half   *)
(* integers are representable; pyint records whether the python object is  *)
(* of type int.                                                            *)
(* Sample arithmetic is exact: means are rationals [n, d] in lowest terms, *)
(* floating point rounding is not modelled.                                *)
(***************************************************************************)
EXTENDS Integers, Sequences, FiniteSets, TLC

VARIABLES
    sa_arg,       \* syncAv: the caller's arguments [datas, blocSize, resid]
    sa_pc,        \* syncAv: position in the procedure
    sa_depth,     \* syncAv: 0 in the caller's call, 1 in the recursive call
    sa_datas,     \* syncAv: datas of the running call
    sa_blocSize,  \* syncAv: blocSize of the running call
    sa_donnees2,  \* syncAv: the resampled signal
    sa_sav,       \* syncAv: sav
    sa_nbBlocs,   \* syncAv: nbBlocs
    sa_residu,    \* syncAv: residu
    sa_warn,      \* syncAv: warnings emitted so far
    sa_err,       \* syncAv: the exception raised, if any
    sa_ret,       \* syncAv: the tuple returned to the caller
    cs_arg,       \* circShift: the caller's arguments
    cs_pc,        \* circShift: position in the procedure
    cs_call,      \* circShift: 1 in the first call, 2 in the call that undoes it,
                  \* 3 in a second call with a shift of its own
    cs_wrapped,   \* circShift: TRUE inside the recursive call made for a 1-D input
    cs_datas,     \* circShift: datas of the running call (2-D)
    cs_shift,     \* circShift: shift of the running call
    cs_index,     \* circShift: loop variable index
    cs_decal,     \* circShift: decal
    cs_err,       \* circShift: the exception raised, if any
    cs_ret,       \* circShift: the array returned by the running call sequence
    cs_first,     \* circShift: the array returned by the first call
    pd_arg,       \* peakDetection: the caller's arguments [signal, method, k, Nmax, k2]
    pd_caller,    \* peakDetection: the content of the array object the caller passed
    pd_pc,        \* peakDetection: position in the procedure
    pd_signal,    \* peakDetection: the local signal, [alias, data]
    pd_k2,        \* peakDetection: k2 once its default is set
    pd_pos,       \* peakSelection: pos
    pd_n,         \* peakSelection: n
    pd_position,  \* peakDetection: position
    pd_amp,       \* peakDetection: amp
    pd_delta,     \* diffinterp: delta
    pd_index,     \* diffinterp: loop variable index
    pd_err,       \* peakDetection: the exception raised, if any
    pd_ret,       \* peakDetection: the tuple returned to the caller
    s2_arg,       \* synchronisation2: the caller's arguments
    s2_signal,    \* synchronisation2: the content of the array the caller passed
    s2_pc,        \* synchronisation2: position in the procedure
    s2_period,    \* synchronisation2: period once interpreted (line 159-163)
    s2_reference, \* synchronisation2: reference
    s2_t0,        \* synchronisation2: t[0]; t is t0, t0+1, ..., t0+period-1
    s2_offset,    \* synchronisation2: offset
    s2_delta,     \* synchronisation2: delta, in tenths of a sample
    s2_index,     \* synchronisation2: loop variable index of the second loop
    s2_synchr,    \* synchronisation2: synchr
    s2_err,       \* synchronisation2: the exception raised, if any
    s2_ret,       \* synchronisation2: the tuple returned to the caller
    p2_arg,       \* part_2: the caller's arguments [signal, nb_iter, min_s]
    p2_pc,        \* part_2: position in the procedure
    p2_signal,    \* part_2: signal, the working set
    p2_ec1,       \* part_2: ec1
    p2_ec2,       \* part_2: ec2
    p2_iter,      \* part_2: iter
    p2_updates,   \* part_2: iterations that updated the centers so far
    p2_cancels,   \* part_2: iterations cancelled so far
    p2_err,       \* part_2: the exception raised, if any
    p2_ret        \* part_2: the tuple returned to the caller

sa_vars == <<sa_arg, sa_pc, sa_depth, sa_datas, sa_blocSize, sa_donnees2,
             sa_sav, sa_nbBlocs, sa_residu, sa_warn, sa_err, sa_ret>>
cs_vars == <<cs_arg, cs_pc, cs_call, cs_wrapped, cs_datas, cs_shift,
             cs_index, cs_decal, cs_err, cs_ret, cs_first>>
pd_vars == <<pd_arg, pd_caller, pd_pc, pd_signal, pd_k2, pd_pos, pd_n,
             pd_position, pd_amp, pd_delta, pd_index, pd_err, pd_ret>>
s2_vars == <<s2_arg, s2_signal, s2_pc, s2_period, s2_reference, s2_t0,
             s2_offset, s2_delta, s2_index, s2_synchr, s2_err, s2_ret>>
p2_vars == <<p2_arg, p2_pc, p2_signal, p2_ec1, p2_ec2, p2_iter, p2_updates,
             p2_cancels, p2_err, p2_ret>>
vars == <<sa_vars, cs_vars, pd_vars, s2_vars, p2_vars>>

---------------------------------------------------------------------------
(* Bounds of the model *)

MaxLen == 5
MaxRows == 2
MaxCells == 8
CsMaxLen == 3
CsMaxCells == 4
CsMaxShift == 4

---------------------------------------------------------------------------
(* Exact arithmetic *)

Abs(x) == IF x < 0 THEN -x ELSE x

RECURSIVE Gcd(_, _)
Gcd(a, b) == IF b = 0 THEN a ELSE Gcd(b, a % b)

\* the rational n/d (d > 0) in lowest terms
Rat(n, d) == LET g == Gcd(Abs(n), d) IN [n |-> n \div g, d |-> d \div g]

RatOfInt(x) == [n |-> x, d |-> 1]

RatSub(p, q) == Rat(p.n * q.d - q.n * p.d, p.d * q.d)

RECURSIVE SumSeq(_)
SumSeq(s) == IF s = <<>> THEN 0 ELSE Head(s) + SumSeq(Tail(s))

\* ceil(k2 / 2)
CeilHalf(k2) == -((-k2) \div 2)

\* ceil(a / b), b > 0
CeilDiv(a, b) == -((-a) \div b)

---------------------------------------------------------------------------
(* Arrays *)

NoArray == [ndim |-> 0, rows |-> <<>>]
NoError == [type |-> "none", msg |-> ""]
NoResult == [arity |-> 0]

Vec(v) == [ndim |-> 1, rows |-> <<v>>]
Mat(m) == [ndim |-> 2, rows |-> m]

VectorsOver(S, maxlen) == UNION {[1..n -> S] : n \in 1..maxlen}

\* the 1-D arrays of at most maxlen samples and the 2-D arrays of at most
\* MaxRows rows, maxlen columns and maxcells samples, over the sample set S
ArraysOver(S, maxlen, maxcells) ==
    {Vec(v) : v \in VectorsOver(S, maxlen)}
    \cup UNION {{Mat(m) : m \in [1..p[1] -> [1..p[2] -> S]]} :
                  p \in {q \in (1..MaxRows) \X (1..maxlen) :
                           q[1] * q[2] <= maxcells}}


---------------------------------------------------------------------------
(* syncAv: arguments *)

SavSamples == {0, 1}

\* blocSize values: -1 .. MaxLen+1 by halves; an int object holds a whole value
BlocSizes ==
    {b \in [k2 : -2..(2 * MaxLen + 2), pyint : BOOLEAN] :
        b.pyint => b.k2 % 2 = 0}

SyncAvArgs == [datas : ArraysOver(SavSamples, MaxLen, MaxCells), blocSize : BlocSizes, resid : BOOLEAN]

---------------------------------------------------------------------------
(* syncAv: helpers *)

\* li, col of the running call
SaLi(d) == IF d.ndim > 1 THEN Len(d.rows) ELSE 1
SaCol(d) == Len(d.rows[1])

\* blocSize > col
BlocTooLarge(b, col) == b.k2 > 2 * col

\* mutation of BlocNotPositive: a zero block size is let through
BlocNegativeOnly(b) == b.k2 < 0

\* blocSize <= 0
BlocNotPositive(b) == b.k2 <= 0

\* type(blocSize) is not int
NotPyInt(b) == ~b.pyint

\* li >= col
LooksTransposed(li, col) == li >= col

\* np.ceil(blocSize)
CeilBloc(b) == CeilHalf(b.k2)

\* len(np.arange(1, col, step)) with step = blocSize / ceil(blocSize)
ResampledLen(col, b) == CeilDiv((col - 1) * 2 * CeilBloc(b), b.k2)

\* interp1d(kind='cubic') needs at least 4 points
MinCubicPoints == 4

\* ifunc(np.arange(1, col, step)): the j-th abscissa is 1 + (j-1)*step; at an
\* abscissa that is a sample position the interpolant returns that sample,
\* between two positions its value is left open.
Resamplings(row, b) ==
    LET c == CeilBloc(b)
        M == ResampledLen(Len(row), b)
    IN {s \in [1..M -> SavSamples] :
          \A j \in 1..M :
             ((j - 1) * b.k2) % (2 * c) = 0
                => s[j] = row[1 + ((j - 1) * b.k2) \div (2 * c)]}

\* nbBlocs = col // blocSize
NbBlocs(col, B) == col \div B

\* mutation of Reshape: the samples are laid out column by column
ReshapeColumnMajor(flat, nb, B) ==
    [k \in 1..nb |-> [j \in 1..B |-> flat[(j - 1) * nb + k]]]

\* np.reshape(flat, [nb, B])
Reshape(flat, nb, B) == [k \in 1..nb |-> [j \in 1..B |-> flat[(k - 1) * B + j]]]

\* np.mean over the block axis
MeanBlocks(tens) ==
    [j \in 1..Len(tens[1]) |->
        Rat(SumSeq([k \in 1..Len(tens) |-> tens[k][j]]), Len(tens))]

\* np.tile(row, reps) along the last axis
Tile(row, reps) == [i \in 1..(Len(row) * reps) |-> row[((i - 1) % Len(row)) + 1]]

\* sav of one row: reshape of the first nb*B samples, mean over the blocks
SavRow(row, nb, B) == MeanBlocks(Reshape(SubSeq(row, 1, nb * B), nb, B))

\* mutation of ResiduRow: the subtraction is the wrong way round
ResiduRowReversed(row, savrow, nb) ==
    LET tiled == SubSeq(Tile(savrow, nb + 1), 1, Len(row))
    IN [j \in 1..Len(row) |-> RatSub(tiled[j], RatOfInt(row[j]))]

\* row - np.tile(sav, nbBlocs + 1)[0:col]
ResiduRow(row, savrow, nb) ==
    LET tiled == SubSeq(Tile(savrow, nb + 1), 1, Len(row))
    IN [j \in 1..Len(row) |-> RatSub(RatOfInt(row[j]), tiled[j])]

\* datas[0:(nbBlocs*blocSize)] of a 2-D array of one row slices the rows, not
\* the samples: the reshape to [nbBlocs, blocSize] needs col = nbBlocs*blocSize
ReshapeFits(d, nb, B) == d.ndim = 1 \/ SaCol(d) = nb * B

---------------------------------------------------------------------------
(* syncAv: actions *)

SaFrame == <<sa_arg, sa_depth, sa_datas, sa_blocSize>>
SaLocals == <<sa_donnees2, sa_sav, sa_nbBlocs, sa_residu>>

SaRaise(type, msg) ==
    /\ sa_pc' = "raised"
    /\ sa_err' = [type |-> type, msg |-> msg]

\* lines 124-125
SaRaiseTooLarge ==
    /\ sa_pc = "entry"
    /\ BlocTooLarge(sa_blocSize, SaCol(sa_datas))
    /\ SaRaise("ValueError", "The datas must have at least 1 blocs.")
    /\ UNCHANGED <<SaFrame, SaLocals, sa_warn, sa_ret>>
    /\ UNCHANGED <<cs_vars, pd_vars, s2_vars, p2_vars>>

\* lines 127-128
SaRaiseNotPositive ==
    /\ sa_pc = "entry"
    /\ ~BlocTooLarge(sa_blocSize, SaCol(sa_datas))
    /\ BlocNotPositive(sa_blocSize)
    /\ SaRaise("ValueError", "Bloc must be strictly positive.")
    /\ UNCHANGED <<SaFrame, SaLocals, sa_warn, sa_ret>>
    /\ UNCHANGED <<cs_vars, pd_vars, s2_vars, p2_vars>>

\* lines 118-131, no exception
SaChecked ==
    /\ sa_pc = "entry"
    /\ ~BlocTooLarge(sa_blocSize, SaCol(sa_datas))
    /\ ~BlocNotPositive(sa_blocSize)
    /\ sa_warn' = IF LooksTransposed(SaLi(sa_datas), SaCol(sa_datas))
                  THEN sa_warn \cup {"transposed"} ELSE sa_warn
    /\ sa_pc' = "dispatch"
    /\ UNCHANGED <<SaFrame, SaLocals, sa_err, sa_ret>>
    /\ UNCHANGED <<cs_vars, pd_vars, s2_vars, p2_vars>>

\* lines 134-138: np.zeros(li, int(...)) takes its second argument as a dtype
SaResampleMatrix ==
    /\ sa_pc = "dispatch"
    /\ NotPyInt(sa_blocSize)
    /\ SaLi(sa_datas) > 1
    /\ sa_warn' = sa_warn \cup {"resampling"}
    /\ SaRaise("TypeError", "Cannot interpret as a data type")
    /\ UNCHANGED <<SaFrame, SaLocals, sa_ret>>
    /\ UNCHANGED <<cs_vars, pd_vars, s2_vars, p2_vars>>

\* lines 134-136, 143: cubic interpolation of fewer than 4 points
SaResampleTooShort ==
    /\ sa_pc = "dispatch"
    /\ NotPyInt(sa_blocSize)
    /\ SaLi(sa_datas) <= 1
    /\ SaCol(sa_datas) < MinCubicPoints
    /\ sa_warn' = sa_warn \cup {"resampling"}
    /\ SaRaise("ValueError", "interp1d: too few points")
    /\ UNCHANGED <<SaFrame, SaLocals, sa_ret>>
    /\ UNCHANGED <<cs_vars, pd_vars, s2_vars, p2_vars>>

\* lines 134-136, 143-144
SaResample ==
    /\ sa_pc = "dispatch"
    /\ NotPyInt(sa_blocSize)
    /\ SaLi(sa_datas) <= 1
    /\ SaCol(sa_datas) >= MinCubicPoints
    /\ sa_warn' = sa_warn \cup {"resampling"}
    /\ \E s \in Resamplings(sa_datas.rows[1], sa_blocSize) :
          sa_donnees2' = [ndim |-> sa_datas.ndim, rows |-> <<s>>]
    /\ sa_pc' = "call"
    /\ UNCHANGED <<SaFrame, sa_sav, sa_nbBlocs, sa_residu, sa_err, sa_ret>>
    /\ UNCHANGED <<cs_vars, pd_vars, s2_vars, p2_vars>>

\* lines 145-149: syncAv (donnees2, int(np.ceil(blocSize)), resid)
SaRecurse ==
    /\ sa_pc = "call"
    /\ sa_depth' = sa_depth + 1
    /\ sa_datas' = sa_donnees2
    /\ sa_blocSize' = [k2 |-> 2 * CeilBloc(sa_blocSize), pyint |-> TRUE]
    /\ sa_pc' = "entry"
    /\ UNCHANGED <<sa_arg, SaLocals, sa_warn, sa_err, sa_ret>>
    /\ UNCHANGED <<cs_vars, pd_vars, s2_vars, p2_vars>>

\* lines 152-158
SaBlockWarnings(col, B, nb) ==
    (IF col % B # 0 THEN {"truncated"} ELSE {})
    \cup (IF nb = 1 THEN {"single"} ELSE {})

\* lines 152-158, 166-168: the reshape of a one-row 2-D array fails
SaReshapeError ==
    /\ sa_pc = "dispatch"
    /\ ~NotPyInt(sa_blocSize)
    /\ LET col == SaCol(sa_datas)
           B == sa_blocSize.k2 \div 2
           nb == NbBlocs(col, B)
       IN /\ SaLi(sa_datas) <= 1
          /\ ~ReshapeFits(sa_datas, nb, B)
          /\ sa_warn' = sa_warn \cup SaBlockWarnings(col, B, nb)
          /\ sa_nbBlocs' = nb
    /\ SaRaise("ValueError", "cannot reshape array")
    /\ UNCHANGED <<SaFrame, sa_donnees2, sa_sav, sa_residu, sa_ret>>
    /\ UNCHANGED <<cs_vars, pd_vars, s2_vars, p2_vars>>

\* lines 150-170
SaInteger ==
    /\ sa_pc = "dispatch"
    /\ ~NotPyInt(sa_blocSize)
    /\ LET col == SaCol(sa_datas)
           li == SaLi(sa_datas)
           B == sa_blocSize.k2 \div 2
           nb == NbBlocs(col, B)
           savrows == [r \in 1..Len(sa_datas.rows) |-> SavRow(sa_datas.rows[r], nb, B)]
       IN /\ li > 1 \/ ReshapeFits(sa_datas, nb, B)
          /\ sa_warn' = sa_warn \cup SaBlockWarnings(col, B, nb)
          /\ sa_nbBlocs' = nb
          /\ sa_sav' = IF li > 1 THEN Mat(savrows) ELSE Vec(savrows[1])
          /\ sa_residu' = [ndim |-> sa_datas.ndim,
                           rows |-> [r \in 1..Len(sa_datas.rows) |->
                                       ResiduRow(sa_datas.rows[r], savrows[r], nb)]]
    /\ sa_pc' = "return"
    /\ UNCHANGED <<SaFrame, sa_donnees2, sa_err, sa_ret>>
    /\ UNCHANGED <<cs_vars, pd_vars, s2_vars, p2_vars>>

\* lines 172-175 of the recursive call, then lines 146-149 of its caller
SaReturnInner ==
    /\ sa_pc = "return"
    /\ sa_depth > 0
    /\ sa_depth' = sa_depth - 1
    /\ sa_datas' = sa_arg.datas
    /\ sa_blocSize' = sa_arg.blocSize
    /\ UNCHANGED <<sa_arg, sa_pc, SaLocals, sa_warn, sa_err, sa_ret>>
    /\ UNCHANGED <<cs_vars, pd_vars, s2_vars, p2_vars>>

\* the tuple built at lines 172-175
SaTuple(resid, sav, nb, residu) ==
    IF resid THEN [arity |-> 3, sav |-> sav, nbBlocs |-> nb, residu |-> residu]
    ELSE [arity |-> 2, sav |-> sav, nbBlocs |-> nb]

\* lines 172-175
SaReturn ==
    /\ sa_pc = "return"
    /\ sa_depth = 0
    /\ sa_ret' = SaTuple(sa_arg.resid, sa_sav, sa_nbBlocs, sa_residu)
    /\ sa_pc' = "returned"
    /\ UNCHANGED <<SaFrame, SaLocals, sa_warn, sa_err>>
    /\ UNCHANGED <<cs_vars, pd_vars, s2_vars, p2_vars>>

\* no call of synchronisation2 is in progress
NoParam == [kind |-> "none", thr |-> 0, slope |-> 0]
NoEnsemble == <<>>
S2Idle ==
    /\ s2_arg = [signal |-> <<>>, period |-> [scalar |-> TRUE, P |-> 0, ref |-> <<>>],
                 method |-> "none", param |-> NoParam, scaleopt |-> "none",
                 estsync |-> FALSE, compens |-> FALSE]
    /\ s2_signal = <<>>
    /\ s2_pc = "idle"
    /\ s2_period = 0
    /\ s2_reference = <<>>
    /\ s2_t0 = 0
    /\ s2_offset = 0
    /\ s2_delta = <<>>
    /\ s2_index = 0
    /\ s2_synchr = NoEnsemble
    /\ s2_err = NoError
    /\ s2_ret = NoResult

\* no call of part_2 is in progress
P2Idle ==
    /\ p2_arg = [signal |-> <<>>, nb_iter |-> 0, min_s |-> 0]
    /\ p2_pc = "idle"
    /\ p2_signal = <<>>
    /\ p2_ec1 = RatOfInt(0)
    /\ p2_ec2 = RatOfInt(0)
    /\ p2_iter = 0
    /\ p2_updates = 0
    /\ p2_cancels = 0
    /\ p2_err = NoError
    /\ p2_ret = NoResult

\* no call of peakDetection is in progress
PdIdle ==
    /\ pd_arg = [signal |-> <<>>, method |-> "none", k |-> 0,
                 Nmax |-> [inf |-> TRUE, n |-> 0], k2 |-> [none |-> TRUE, v |-> 0]]
    /\ pd_caller = <<>>
    /\ pd_pc = "idle"
    /\ pd_signal = [alias |-> FALSE, data |-> <<>>]
    /\ pd_k2 = 0
    /\ pd_pos = <<>>
    /\ pd_n = 0
    /\ pd_position = <<>>
    /\ pd_amp = <<>>
    /\ pd_delta = [array |-> TRUE, v |-> 0]
    /\ pd_index = 0
    /\ pd_err = NoError
    /\ pd_ret = NoResult

SaIdle ==
    /\ sa_arg = [datas |-> NoArray, blocSize |-> [k2 |-> 0, pyint |-> TRUE], resid |-> FALSE]
    /\ sa_pc = "idle"
    /\ sa_depth = 0
    /\ sa_datas = NoArray
    /\ sa_blocSize = [k2 |-> 0, pyint |-> TRUE]
    /\ sa_donnees2 = NoArray
    /\ sa_sav = NoArray
    /\ sa_nbBlocs = 0
    /\ sa_residu = NoArray
    /\ sa_warn = {}
    /\ sa_err = NoError
    /\ sa_ret = NoResult

---------------------------------------------------------------------------
(* circShift: arguments *)

\* samples 1, 2 and 1+i
CsSamples == {[re |-> 1, im |-> 0], [re |-> 2, im |-> 0], [re |-> 1, im |-> 1]}

\* twice the shift: the whole shifts -CsMaxShift .. CsMaxShift, and -3/2, 1/2
ScalarShifts == {2 * t : t \in -CsMaxShift..CsMaxShift} \cup {-3, 1}

\* twice the shifts used in per-row shift vectors: -1, 0, 2 and 1/2
RowShifts == {-2, 0, 4, 1}

\* the shift arguments tried on an array of li rows: every scalar, every vector
\* of li shifts, a vector of li + 1 shifts and a vector of li - 1 shifts
ShiftArgs(li) ==
    {[scalar |-> TRUE, v |-> <<t>>] : t \in ScalarShifts}
    \cup {[scalar |-> FALSE, v |-> w] : w \in [1..li -> RowShifts]}
    \cup {[scalar |-> FALSE, v |-> [i \in 1..(li + 1) |-> 0]]}
    \cup {[scalar |-> FALSE, v |-> [i \in 1..(li - 1) |-> 0]]}

\* an argument that is not a numpy array (a python list) is tried on one value
CircShiftArgs ==
    {a \in [isarray : BOOLEAN,
            datas : ArraysOver(CsSamples, CsMaxLen, CsMaxCells),
            shift : UNION {ShiftArgs(li) : li \in 1..MaxRows},
            forceft : BOOLEAN] :
        /\ a.shift \in ShiftArgs(Len(a.datas.rows))
        /\ ~a.isarray =>
              /\ a.datas = Vec(<<[re |-> 1, im |-> 0], [re |-> 2, im |-> 0]>>)
              /\ a.shift = [scalar |-> TRUE, v |-> <<2>>]}

---------------------------------------------------------------------------
(* circShift: helpers *)

\* sht == np.floor(sht)
IsWholeShift(sht2) == sht2 % 2 = 0

\* np.ones(li) * shift
ExpandShift(shift, li) == IF shift.scalar THEN [i \in 1..li |-> shift.v[1]] ELSE shift.v

\* mutation of ShiftLenMismatch: only a vector that is too short is refused
ShiftLenShorter(shift, li) == Len(ExpandShift(shift, li)) < li

\* line 88: len(shift) != li
ShiftLenMismatch(shift, li) == Len(ExpandShift(shift, li)) # li

\* np.zeros(datas.shape)
ZeroSample == [re |-> 0, im |-> 0]
Zeros(d) == [ndim |-> d.ndim,
             rows |-> [r \in 1..Len(d.rows) |-> [i \in 1..Len(d.rows[r]) |-> ZeroSample]]]

\* a store into decal, an array of floats: the imaginary part is discarded
ToFloat(x) == [x EXCEPT !.im = 0]

\* while sht < 0: sht = sht + col
RECURSIVE AddWhileNegative(_, _)
AddWhileNegative(sht, col) == IF sht < 0 THEN AddWhileNegative(sht + col, col) ELSE sht

\* mutation of NormalizedShift: a shift of col samples or more is dropped
\* instead of being reduced modulo col
NormalizedShiftCapped(sht, col) ==
    IF AddWhileNegative(sht, col) >= col THEN 0 ELSE AddWhileNegative(sht, col)

\* lines 111-114
NormalizedShift(sht, col) == AddWhileNegative(sht, col) % col

\* mutation of ShiftedRow: the row is rotated the other way
ShiftedRowBackwards(row, sht) ==
    LET col == Len(row)
    IN [i \in 1..col |->
          IF i <= col - sht THEN ToFloat(row[i + sht]) ELSE ToFloat(row[i + sht - col])]

\* lines 116-117: decal[sht:col] = datas[0:col-sht]; decal[0:sht] = datas[col-sht:col]
ShiftedRow(row, sht) ==
    LET col == Len(row)
    IN [i \in 1..col |->
          IF i > sht THEN ToFloat(row[i - sht]) ELSE ToFloat(row[col - sht + i])]

\* lines 123-134: sample i of the row shifted by sht2/2 in the frequency
\* domain; its value is not computed, only what it was computed from is kept
FourierRow(row, sht2) ==
    [i \in 1..Len(row) |-> [re |-> 0, im |-> 0, ft |-> [of |-> row, tau2 |-> sht2, at |-> i]]]

---------------------------------------------------------------------------
(* circShift: actions *)

CsRaise(msg) ==
    /\ cs_pc' = "raised"
    /\ cs_err' = [type |-> "ValueError", msg |-> msg]

\* lines 76-77
CsRaiseNotArray ==
    /\ cs_pc = "entry"
    /\ cs_call = 1
    /\ ~cs_arg.isarray
    /\ CsRaise("datas should be numpy arrays")
    /\ UNCHANGED <<cs_arg, cs_call, cs_wrapped, cs_datas, cs_shift, cs_index,
                   cs_decal, cs_ret, cs_first>>
    /\ UNCHANGED <<sa_vars, pd_vars, s2_vars, p2_vars>>

\* lines 79-80: circShift(np.array([datas]), shift, forceft)
CsWrap ==
    /\ cs_pc = "entry"
    /\ cs_call >= 2 \/ cs_arg.isarray
    /\ cs_datas.ndim = 1
    /\ cs_datas' = Mat(cs_datas.rows)
    /\ cs_wrapped' = TRUE
    /\ UNCHANGED <<cs_arg, cs_pc, cs_call, cs_shift, cs_index, cs_decal,
                   cs_err, cs_ret, cs_first>>
    /\ UNCHANGED <<sa_vars, pd_vars, s2_vars, p2_vars>>

\* lines 83-89
CsRaiseShiftLen ==
    /\ cs_pc = "entry"
    /\ cs_call >= 2 \/ cs_arg.isarray
    /\ cs_datas.ndim = 2
    /\ ShiftLenMismatch(cs_shift, Len(cs_datas.rows))
    /\ CsRaise("If shift is a vector it must have its size equal to signals numbers.")
    /\ UNCHANGED <<cs_arg, cs_call, cs_wrapped, cs_datas, cs_shift, cs_index,
                   cs_decal, cs_ret, cs_first>>
    /\ UNCHANGED <<sa_vars, pd_vars, s2_vars, p2_vars>>

\* lines 83-105
CsSetup ==
    /\ cs_pc = "entry"
    /\ cs_call >= 2 \/ cs_arg.isarray
    /\ cs_datas.ndim = 2
    /\ ~ShiftLenMismatch(cs_shift, Len(cs_datas.rows))
    /\ cs_shift' = [scalar |-> FALSE, v |-> ExpandShift(cs_shift, Len(cs_datas.rows))]
    /\ cs_decal' = Zeros(cs_datas)
    /\ cs_index' = 0
    /\ cs_pc' = "loop"
    /\ UNCHANGED <<cs_arg, cs_call, cs_wrapped, cs_datas, cs_err, cs_ret, cs_first>>
    /\ UNCHANGED <<sa_vars, pd_vars, s2_vars, p2_vars>>

\* lines 105-117
CsRowInteger ==
    /\ cs_pc = "loop"
    /\ cs_index < Len(cs_datas.rows)
    /\ LET sht2 == cs_shift.v[cs_index + 1]
           row == cs_datas.rows[cs_index + 1]
       IN /\ IsWholeShift(sht2) /\ cs_arg.forceft = FALSE
          /\ cs_decal' = [cs_decal EXCEPT !.rows[cs_index + 1] =
                            ShiftedRow(row, NormalizedShift(sht2 \div 2, Len(row)))]
    /\ cs_index' = cs_index + 1
    /\ UNCHANGED <<cs_arg, cs_pc, cs_call, cs_wrapped, cs_datas, cs_shift,
                   cs_err, cs_ret, cs_first>>
    /\ UNCHANGED <<sa_vars, pd_vars, s2_vars, p2_vars>>

\* lines 105-108, 118-134
CsRowFourier ==
    /\ cs_pc = "loop"
    /\ cs_index < Len(cs_datas.rows)
    /\ LET sht2 == cs_shift.v[cs_index + 1]
           row == cs_datas.rows[cs_index + 1]
       IN /\ ~(IsWholeShift(sht2) /\ cs_arg.forceft = FALSE)
          /\ cs_decal' = [cs_decal EXCEPT !.rows[cs_index + 1] = FourierRow(row, sht2)]
    /\ cs_index' = cs_index + 1
    /\ UNCHANGED <<cs_arg, cs_pc, cs_call, cs_wrapped, cs_datas, cs_shift,
                   cs_err, cs_ret, cs_first>>
    /\ UNCHANGED <<sa_vars, pd_vars, s2_vars, p2_vars>>

\* line 136
CsReturn ==
    /\ cs_pc = "loop"
    /\ cs_index = Len(cs_datas.rows)
    /\ ~cs_wrapped
    /\ cs_ret' = cs_decal
    /\ cs_pc' = "returned"
    /\ UNCHANGED <<cs_arg, cs_call, cs_wrapped, cs_datas, cs_shift, cs_index,
                   cs_decal, cs_err, cs_first>>
    /\ UNCHANGED <<sa_vars, pd_vars, s2_vars, p2_vars>>

\* line 136 of the recursive call, then line 81 of its caller: return decal[0]
CsReturnUnwrapped ==
    /\ cs_pc = "loop"
    /\ cs_index = Len(cs_datas.rows)
    /\ cs_wrapped
    /\ cs_ret' = Vec(cs_decal.rows[1])
    /\ cs_wrapped' = FALSE
    /\ cs_pc' = "returned"
    /\ UNCHANGED <<cs_arg, cs_call, cs_datas, cs_shift, cs_index, cs_decal,
                   cs_err, cs_first>>
    /\ UNCHANGED <<sa_vars, pd_vars, s2_vars, p2_vars>>

\* the shift argument that undoes shift
OppositeShift(shift) == [shift EXCEPT !.v = [i \in 1..Len(shift.v) |-> -shift.v[i]]]

\* the caller shifts the returned array back:
\* circShift(circShift(signal, s), -s)
CsShiftBack ==
    /\ cs_pc = "returned"
    /\ cs_call = 1
    /\ cs_call' = 2
    /\ cs_first' = cs_ret
    /\ cs_datas' = cs_ret
    /\ cs_shift' = OppositeShift(cs_arg.shift)
    /\ cs_pc' = "entry"
    /\ UNCHANGED <<cs_arg, cs_wrapped, cs_index, cs_decal, cs_err, cs_ret>>
    /\ UNCHANGED <<sa_vars, pd_vars, s2_vars, p2_vars>>

\* twice the whole shifts b of a second call: one sample and CsMaxShift
\* samples, either way
SecondShifts == {2 * t : t \in {-CsMaxShift, -1, 1, CsMaxShift}}

\* after a call that rotated every row of a real signal by a whole shift a,
\* the caller shifts the returned array again, by a whole shift b:
\* circShift(circShift(signal, a), b)
CsShiftAgain ==
    /\ cs_pc = "returned"
    /\ cs_call = 1
    /\ ~cs_arg.forceft
    /\ cs_arg.shift.scalar
    /\ IsWholeShift(cs_arg.shift.v[1])
    /\ \A r \in 1..Len(cs_arg.datas.rows) :
          \A i \in 1..Len(cs_arg.datas.rows[r]) : cs_arg.datas.rows[r][i].im = 0
    /\ cs_call' = 3
    /\ cs_first' = cs_ret
    /\ cs_datas' = cs_ret
    /\ \E b \in SecondShifts : cs_shift' = [scalar |-> TRUE, v |-> <<b>>]
    /\ cs_pc' = "entry"
    /\ UNCHANGED <<cs_arg, cs_wrapped, cs_index, cs_decal, cs_err, cs_ret>>
    /\ UNCHANGED <<sa_vars, pd_vars, s2_vars, p2_vars>>

CsIdle ==
    /\ cs_arg = [isarray |-> TRUE, datas |-> NoArray,
                 shift |-> [scalar |-> TRUE, v |-> <<0>>], forceft |-> FALSE]
    /\ cs_pc = "idle"
    /\ cs_call = 0
    /\ cs_wrapped = FALSE
    /\ cs_datas = NoArray
    /\ cs_shift = [scalar |-> TRUE, v |-> <<0>>]
    /\ cs_index = 0
    /\ cs_decal = NoArray
    /\ cs_err = NoError
    /\ cs_ret = NoArray
    /\ cs_first = NoArray

InitCircShift ==
    /\ cs_arg \in CircShiftArgs
    /\ cs_pc = "entry"
    /\ cs_call = 1
    /\ cs_wrapped = FALSE
    /\ cs_datas = cs_arg.datas
    /\ cs_shift = cs_arg.shift
    /\ cs_index = 0
    /\ cs_decal = NoArray
    /\ cs_err = NoError
    /\ cs_ret = NoArray
    /\ cs_first = NoArray
    /\ SaIdle
    /\ PdIdle
    /\ S2Idle
    /\ P2Idle

NextCircShift ==
    \/ CsRaiseNotArray
    \/ CsWrap
    \/ CsRaiseShiftLen
    \/ CsSetup
    \/ CsRowInteger
    \/ CsRowFourier
    \/ CsReturn
    \/ CsReturnUnwrapped
    \/ CsShiftBack
    \/ CsShiftAgain

SpecCircShift == InitCircShift /\ [][NextCircShift]_vars

InitSyncAv ==
    /\ sa_arg \in SyncAvArgs
    /\ sa_pc = "entry"
    /\ sa_depth = 0
    /\ sa_datas = sa_arg.datas
    /\ sa_blocSize = sa_arg.blocSize
    /\ sa_donnees2 = NoArray
    /\ sa_sav = NoArray
    /\ sa_nbBlocs = 0
    /\ sa_residu = NoArray
    /\ sa_warn = {}
    /\ sa_err = NoError
    /\ sa_ret = NoResult
    /\ CsIdle
    /\ PdIdle
    /\ S2Idle
    /\ P2Idle

NextSyncAv ==
    \/ SaRaiseTooLarge
    \/ SaRaiseNotPositive
    \/ SaChecked
    \/ SaResampleMatrix
    \/ SaResampleTooShort
    \/ SaResample
    \/ SaRecurse
    \/ SaReshapeError
    \/ SaInteger
    \/ SaReturnInner
    \/ SaReturn

SpecSyncAv == InitSyncAv /\ [][NextSyncAv]_vars


---------------------------------------------------------------------------
(* syncAv: properties *)

ArgDatas == sa_arg.datas
ArgBloc == sa_arg.blocSize
ArgL == SaCol(sa_arg.datas)
ArgB == sa_arg.blocSize.k2 \div 2
SaTerminal == sa_pc \in {"returned", "raised"}
SaReturned == sa_pc = "returned"

\* blockSize is a python int with 0 < blockSize <= L
IntegerBlocOk == ArgBloc.pyint /\ 0 < ArgBloc.k2 /\ ArgBloc.k2 <= 2 * ArgL

\* the value of blockSize is not a whole number, and 0 < blockSize <= L
FractionalBlocOk == ArgBloc.k2 % 2 = 1 /\ 0 < ArgBloc.k2 /\ ArgBloc.k2 <= 2 * ArgL

\* p = x - a, for an integer x and rationals p, a
IsDifference(p, x, a) == p.n * a.d = p.d * (x * a.d - a.n)

\* C1: whenever blockSize <= 0 or blockSize > L, syncAv raises ValueError and
\* returns no result: the call never gets past the argument checks.
C1_InvalidBlocSizeRaises ==
    (ArgBloc.k2 <= 0 \/ ArgBloc.k2 > 2 * ArgL) =>
        /\ sa_ret = NoResult
        /\ sa_pc \in {"entry", "raised"}
        /\ sa_pc = "entry" => ~ENABLED SaChecked
        /\ sa_pc = "raised" => sa_err.type = "ValueError"

\* a call with blockSize = 0 on a signal of at least two samples has raised
C1_Witness ==
    /\ sa_pc = "raised"
    /\ sa_err.type = "ValueError"
    /\ ArgBloc.k2 = 0
    /\ ArgL >= 2

\* C2: for every signal and every blockSize with 0 < blockSize <= L, integer
\* or not, with or without a residual, syncAv raises nothing.
C2_NoOtherFatalError ==
    (0 < ArgBloc.k2 /\ ArgBloc.k2 <= 2 * ArgL) => sa_pc # "raised"

\* C3: for an integer blockSize B with 0 < B <= L, syncAv returns
\* numBlocks = floor(L / B) and an average of the shape of one block (B, or
\* R x B for a matrix of R rows) whose sample j is the mean over the blocks k
\* of signal[k*B + j].
C3_IntegerAverage ==
    (IntegerBlocOk /\ SaTerminal) =>
        /\ SaReturned
        /\ sa_ret.nbBlocs = ArgL \div ArgB
        /\ sa_ret.sav.ndim = ArgDatas.ndim
        /\ Len(sa_ret.sav.rows) = Len(ArgDatas.rows)
        /\ \A r \in 1..Len(ArgDatas.rows) :
              /\ Len(sa_ret.sav.rows[r]) = ArgB
              /\ \A j \in 1..ArgB :
                    sa_ret.sav.rows[r][j].n * sa_ret.nbBlocs =
                        sa_ret.sav.rows[r][j].d *
                          SumSeq([k \in 1..sa_ret.nbBlocs |->
                                    ArgDatas.rows[r][(k - 1) * ArgB + j]])

\* the statement of C3 on the inputs other than the 2-D arrays of one row
C3_OffOneRowMatrix ==
    (ArgDatas.ndim = 2 /\ Len(ArgDatas.rows) = 1) \/ C3_IntegerAverage

\* every row of the signal is its first P samples repeated N times
TiledInput(P, N) ==
    /\ ArgL = N * P
    /\ \A r \in 1..Len(ArgDatas.rows) :
          \A i \in 1..ArgL :
             ArgDatas.rows[r][i] = ArgDatas.rows[r][((i - 1) % P) + 1]

\* C4: for a block b of P samples repeated N >= 2 times and blockSize P,
\* syncAv returns numBlocks = N and an average equal to b.
C4_TiledBlockAverage ==
    (ArgBloc.pyint /\ ArgB >= 1 /\ ArgL \div ArgB >= 2
       /\ TiledInput(ArgB, ArgL \div ArgB) /\ SaTerminal) =>
        /\ SaReturned
        /\ sa_ret.nbBlocs = ArgL \div ArgB
        /\ \A r \in 1..Len(ArgDatas.rows) :
              sa_ret.sav.rows[r] = [j \in 1..ArgB |-> RatOfInt(ArgDatas.rows[r][j])]

\* the block <<0, 1>> repeated twice has been averaged with blockSize 2
C4_Witness ==
    /\ SaReturned
    /\ ArgDatas = Vec(<<0, 1, 0, 1>>)
    /\ ArgBloc = [k2 |-> 4, pyint |-> TRUE]
    /\ sa_ret.nbBlocs = 2

\* C5 as stated: the residual has the length of the truncated signal,
\* numBlocks*blockSize, and equals the truncated signal minus the tiled average.
C5_ResidualOfTruncated ==
    (IntegerBlocOk /\ sa_arg.resid /\ SaReturned) =>
        \A r \in 1..Len(ArgDatas.rows) :
           /\ Len(sa_ret.residu.rows[r]) = sa_ret.nbBlocs * ArgB
           /\ \A j \in 1..(sa_ret.nbBlocs * ArgB) :
                 IsDifference(sa_ret.residu.rows[r][j], ArgDatas.rows[r][j],
                              sa_ret.sav.rows[r][((j - 1) % ArgB) + 1])

\* C5 amended: the residual has the length L of the signal, and on its first
\* numBlocks*blockSize samples it equals the truncated signal minus the
\* average tiled numBlocks times.
C5_ResidualOnTruncatedPart ==
    (IntegerBlocOk /\ sa_arg.resid /\ SaReturned) =>
        \A r \in 1..Len(ArgDatas.rows) :
           /\ Len(sa_ret.residu.rows[r]) = ArgL
           /\ \A j \in 1..(sa_ret.nbBlocs * ArgB) :
                 IsDifference(sa_ret.residu.rows[r][j], ArgDatas.rows[r][j],
                              sa_ret.sav.rows[r][((j - 1) % ArgB) + 1])

\* a residual has been returned for two blocks of two samples and one
\* trailing sample, with a residual that is not zero
C5_Witness ==
    /\ SaReturned
    /\ sa_arg.resid
    /\ ArgDatas.ndim = 1
    /\ ArgL = 5
    /\ ArgBloc = [k2 |-> 4, pyint |-> TRUE]
    /\ sa_ret.nbBlocs = 2
    /\ sa_ret.residu.rows[1][1].n # 0

\* C6: a residual is returned only on request (2-tuple, else 3-tuple) and,
\* for an integer blockSize B, has the shape of the signal with
\* residual[j] = signal[j] - average[j mod B] for every j in 0..L-1.
C6_ResidualShape ==
    (IntegerBlocOk /\ SaTerminal) =>
        /\ SaReturned
        /\ sa_ret.arity = IF sa_arg.resid THEN 3 ELSE 2
        /\ sa_arg.resid =>
              /\ sa_ret.residu.ndim = ArgDatas.ndim
              /\ Len(sa_ret.residu.rows) = Len(ArgDatas.rows)
              /\ \A r \in 1..Len(ArgDatas.rows) :
                    /\ Len(sa_ret.residu.rows[r]) = ArgL
                    /\ \A j \in 1..ArgL :
                          IsDifference(sa_ret.residu.rows[r][j], ArgDatas.rows[r][j],
                                       sa_ret.sav.rows[r][((j - 1) % ArgB) + 1])

\* the statement of C6 on the inputs other than the 2-D arrays of one row
C6_OffOneRowMatrix ==
    (ArgDatas.ndim = 2 /\ Len(ArgDatas.rows) = 1) \/ C6_ResidualShape

\* C7: for every signal and every non-integer blockSize b with 0 < b <= L,
\* syncAv warns, resamples with step b / ceil(b) and returns an average of
\* ceil(b) samples per row.
C7_FractionalBlocResamples ==
    (FractionalBlocOk /\ SaTerminal) =>
        /\ SaReturned
        /\ "resampling" \in sa_warn
        /\ Len(sa_donnees2.rows[1]) * ArgBloc.k2
              >= (ArgL - 1) * (ArgBloc.k2 + 1)
        /\ (Len(sa_donnees2.rows[1]) - 1) * ArgBloc.k2
              < (ArgL - 1) * (ArgBloc.k2 + 1)
        /\ Len(sa_ret.sav.rows) = Len(ArgDatas.rows)
        /\ \A r \in 1..Len(ArgDatas.rows) :
              Len(sa_ret.sav.rows[r]) = (ArgBloc.k2 + 1) \div 2

\* the statement of C7 on the 1-D signals of at least 4 samples
C7_OnLongVectors ==
    (ArgDatas.ndim = 1 /\ ArgL >= MinCubicPoints) => C7_FractionalBlocResamples

---------------------------------------------------------------------------
(* circShift: properties *)

CsArgDatas == cs_arg.datas

\* twice the shift the caller asked for row r
CsArgShift(r) == IF cs_arg.shift.scalar THEN cs_arg.shift.v[1] ELSE cs_arg.shift.v[r]

\* the first call has returned
CsFirstReturned == cs_call = 1 /\ cs_pc = "returned"

\* the call that shifts back has returned
CsBackReturned == cs_call = 2 /\ cs_pc = "returned"

\* every shift of the call is a whole number
CsWholeShifts == \A i \in 1..Len(cs_arg.shift.v) : cs_arg.shift.v[i] % 2 = 0

RealRow(row) == \A i \in 1..Len(row) : row[i].im = 0
RealArray(d) == \A r \in 1..Len(d.rows) : RealRow(d.rows[r])

\* row r of the returned array is row r of the signal rotated by its shift
RotatedRow(r) ==
    LET N == Len(CsArgDatas.rows[r])
        t == CsArgShift(r) \div 2
    IN \A i \in 0..(N - 1) :
          cs_ret.rows[r][i + 1] = CsArgDatas.rows[r][((i - t) % N) + 1]

\* C8: with forceFourier = false, every row r whose shift s_r is a whole
\* number is returned rotated: shifted[r][i] = signal[r][(i - s_r) mod N];
\* a scalar shift applies to every row, a vector applies shift[r] to row r.
C8_IntegerShiftRotates ==
    (CsFirstReturned /\ ~cs_arg.forceft) =>
        \A r \in 1..Len(CsArgDatas.rows) :
           CsArgShift(r) % 2 = 0 => RotatedRow(r)

\* the statement of C8 on the rows of real samples
C8_OnRealRows ==
    (CsFirstReturned /\ ~cs_arg.forceft) =>
        \A r \in 1..Len(CsArgDatas.rows) :
           (CsArgShift(r) % 2 = 0 /\ RealRow(CsArgDatas.rows[r])) => RotatedRow(r)

\* C9: for any signal, real or complex, and any whole shift s,
\* circShift(circShift(signal, s), -s) equals signal exactly.
C9_ShiftBackRestores ==
    (CsBackReturned /\ ~cs_arg.forceft /\ CsWholeShifts) => cs_ret = CsArgDatas

\* the statement of C9 on the signals of real samples
C9_OnRealSignals ==
    (CsBackReturned /\ ~cs_arg.forceft /\ CsWholeShifts /\ RealArray(CsArgDatas))
        => cs_ret = CsArgDatas

\* C10: for any signal, real or complex, circShift(signal, 0) returns an
\* array equal to signal, of the same shape.
C10_ZeroShiftIdentity ==
    (CsFirstReturned /\ ~cs_arg.forceft
       /\ cs_arg.shift = [scalar |-> TRUE, v |-> <<0>>]) => cs_ret = CsArgDatas

\* the statement of C10 on the signals of real samples
C10_OnRealSignals ==
    (CsFirstReturned /\ ~cs_arg.forceft /\ RealArray(CsArgDatas)
       /\ cs_arg.shift = [scalar |-> TRUE, v |-> <<0>>]) => cs_ret = CsArgDatas


---------------------------------------------------------------------------
(* C11 *)

\* the caller's shift is a vector whose length is not the number of rows
CsShiftVectorMismatch ==
    /\ ~cs_arg.shift.scalar
    /\ Len(cs_arg.shift.v) # Len(cs_arg.datas.rows)

---------------------------------------------------------------------------
(* C20 *)

\* C20: for a 1-D signal and every blockSize whose value B is a whole number
\* with 0 < B <= L, whatever its python type, syncAv returns without the
\* resampling warning and without resampling, and numBlocks = floor(L / B).
C20_WholeValueNotResampled ==
    (ArgDatas.ndim = 1 /\ ArgBloc.k2 % 2 = 0 /\ 0 < ArgBloc.k2
       /\ ArgBloc.k2 <= 2 * ArgL /\ SaTerminal) =>
        /\ SaReturned
        /\ "resampling" \notin sa_warn
        /\ sa_donnees2 = NoArray
        /\ sa_ret.nbBlocs = ArgL \div ArgB

\* the statement of C20 on the block sizes of python type int
C20_OnPyInt ==
    ArgBloc.pyint => C20_WholeValueNotResampled


---------------------------------------------------------------------------
(* peakDetection: arguments *)

PdMaxLen == 3

\* a sample of the caller's signal: a finite value, or NaN / +Inf / -Inf
Fin(x) == [fin |-> TRUE, v |-> x]
NotFinite == [fin |-> FALSE, v |-> 0]
PdSamples == {Fin(0), Fin(1), Fin(2), NotFinite}

\* lines 193 and 196 of diffinterp: delta = np.arange(-10, 11), refined when
\* pos > 4 and pos < N - 6
RefineSpan == 10
RefineLow == 4
RefineHigh == 6

\* the shortest signal on which a position can be refined without reading
\* past the end of the signal
PdLongLen == RefineSpan + RefineHigh

\* signals long enough for diffinterp to refine: one sample of value 2 at
\* python index p, a sample of value 1 two places later
PdLongSignals ==
    {[i \in 1..PdLongLen |->
        IF i = p + 1 THEN Fin(2) ELSE IF i = p + 3 THEN Fin(1) ELSE Fin(0)] :
            p \in {RefineLow + 1, RefineLow + 2}}

PdSignals == VectorsOver(PdSamples, PdMaxLen) \cup PdLongSignals

PdMethods == {"kStdThreshold", "diff", "diffInterp"}

\* Nmax is a whole number or np.Inf
NmaxValues == {[inf |-> TRUE, n |-> 0], [inf |-> FALSE, n |-> 1], [inf |-> FALSE, n |-> 2]}

NoK2 == [none |-> TRUE, v |-> 0]

\* the (method, k, k2) tried: k is the number of standard deviations of
\* kStdThreshold and the minimum distance of the two other methods
PdSettings ==
    {[method |-> "kStdThreshold", k |-> k, k2 |-> k2] :
        k \in {0, 1}, k2 \in {NoK2, [none |-> FALSE, v |-> 1]}}
    \cup {[method |-> "diff", k |-> k, k2 |-> NoK2] : k \in {0, 1, 2}}
    \cup {[method |-> "diffInterp", k |-> k, k2 |-> k2] :
        k \in {1, 2}, k2 \in {NoK2, [none |-> FALSE, v |-> 2]}}
    \cup {[method |-> "kstd", k |-> 1, k2 |-> NoK2]}

PeakDetectionArgs ==
    {[signal |-> sig, method |-> c.method, k |-> c.k, Nmax |-> nm, k2 |-> c.k2] :
        sig \in PdSignals, c \in PdSettings, nm \in NmaxValues}

---------------------------------------------------------------------------
(* peakDetection: helpers *)

MinOf(S) == CHOOSE x \in S : \A y \in S : x <= y

\* the r-th smallest element of a set of integers
NthOf(K, r) == CHOOSE j \in K : Cardinality({i \in K : i < j}) = r - 1

\* the elements of s at the indices of K, in the order of s
AtIndices(s, K) == [r \in 1..Cardinality(K) |-> s[NthOf(K, r)]]

\* np.sort of a sequence
SortAsc(s) ==
    [r \in 1..Len(s) |->
       s[CHOOSE j \in 1..Len(s) :
           Cardinality({i \in 1..Len(s) : s[i] < s[j] \/ (s[i] = s[j] /\ i < j)}) = r - 1]]

\* mutation of NpArray: np.asarray(signal), the caller's array itself
NpAsArray(a) == [alias |-> TRUE, data |-> a]

\* line 122: np.array(signal), a copy of the caller's array
NpArray(a) == [alias |-> FALSE, data |-> a]

\* lines 115-119; the comparison with 'kstdthreshold' never succeeds on a
\* method that passed line 112
DefaultK2(method) == IF method = "kstdthreshold" THEN 1 ELSE 4

\* line 123: np.where(np.isfinite(signal))
FiniteIndices(sig) == {i \in 1..Len(sig) : sig[i].fin}

\* lines 124-125: signal[pb] = np.min(signal[ok])
Cleaned(sig) ==
    LET mn == MinOf({sig[i].v : i \in FiniteIndices(sig)})
    IN [i \in 1..Len(sig) |-> IF sig[i].fin THEN sig[i] ELSE Fin(mn)]

Vals(sig) == [i \in 1..Len(sig) |-> sig[i].v]

\* lines 139-142: the python indices i with signal[i] - mean > k * std, that
\* is n*x - S > k * sqrt(n*Q - S*S) for S the sum and Q the sum of squares
KStdPeaks(x, k) ==
    LET n == Len(x)
        S == SumSeq(x)
        Q == SumSeq([i \in 1..n |-> x[i] * x[i]])
        R == n * Q - S * S
        Above(i) == LET A == n * x[i] - S IN A > 0 /\ A * A > k * k * R
    IN AtIndices([i \in 1..n |-> i - 1], {i \in 1..n : Above(i)})

\* lines 166-171: the python indices i with deriv[i] >= 0 and deriv[i+1] <= 0,
\* for the signal extended by its minimum on both sides
DiffPeaks(x) ==
    LET N == Len(x)
        m == MinOf({x[i] : i \in 1..N})
        y(i) == IF i = 0 \/ i = N + 1 THEN m ELSE x[i]
    IN AtIndices([i \in 1..N |-> i - 1],
                 {i \in 1..N : y(i) - y(i - 1) >= 0 /\ y(i + 1) - y(i) <= 0})

\* lines 223-224: pos[np.argsort(-amp)]; equal amplitudes keep their order
ArgSortDesc(pos, x) ==
    [r \in 1..Len(pos) |->
       pos[CHOOSE j \in 1..Len(pos) :
             Cardinality({i \in 1..Len(pos) :
                 \/ x[pos[i] + 1] > x[pos[j] + 1]
                 \/ (x[pos[i] + 1] = x[pos[j] + 1] /\ i < j)}) = r - 1]]

\* n < Nmax
BelowNmax(n, Nmax) == Nmax.inf \/ n < Nmax.n

\* mutation of FarPeaks: a peak at exactly mindist of pos[n] is removed too
FarPeaksStrict(pos, n, mindist) ==
    AtIndices(pos, {j \in 1..Len(pos) : j = n + 1 \/ Abs(pos[j] - pos[n + 1]) > mindist})

\* lines 231-234: the peaks at distance >= mindist of pos[n], and pos[n]
FarPeaks(pos, n, mindist) ==
    AtIndices(pos, {j \in 1..Len(pos) : j = n + 1 \/ Abs(pos[j] - pos[n + 1]) >= mindist})

\* the minimum distance handed to peakSelection: k2 for kStdThreshold
\* (line 129), k for diff and diffInterp (lines 131, 133, 188)
Mindist == IF pd_arg.method = "kStdThreshold" THEN pd_k2 ELSE pd_arg.k

\* line 196
Refinable(pos, N) == pos > RefineLow /\ pos < N - RefineHigh

\* lines 197-198: ifactor times the value of the linear interpolation of
\* signal[pos-1], signal[pos], signal[pos+1] at j / ifactor
InterpTimes(x, pos, j, ifactor) ==
    IF j <= 0 THEN ifactor * x[pos + 1] + j * (x[pos + 1] - x[pos])
    ELSE ifactor * x[pos + 1] + j * (x[pos + 2] - x[pos + 1])

\* line 199: np.argmax(y), the first index of the maximum
RefineArgmax(x, pos, ifactor) ==
    LET J == (-ifactor)..ifactor
        best == CHOOSE j \in J :
                  /\ \A i \in J : InterpTimes(x, pos, i, ifactor) <= InterpTimes(x, pos, j, ifactor)
                  /\ \A i \in J : i < j => InterpTimes(x, pos, i, ifactor) < InterpTimes(x, pos, j, ifactor)
    IN best + ifactor

\* line 200: pos + (delta - ifactor - 1) / ifactor stored in an array of
\* integers, which truncates it
RefinedPos(pos, delta, ifactor) == (pos * ifactor + delta - ifactor - 1) \div ifactor


---------------------------------------------------------------------------
(* peakDetection: actions *)

PdRaise(type, msg) ==
    /\ pd_pc' = "raised"
    /\ pd_err' = [type |-> type, msg |-> msg]

PdOthers == <<sa_vars, cs_vars, s2_vars, p2_vars>>

\* lines 112-113
PdRaiseMethod ==
    /\ pd_pc = "entry"
    /\ pd_arg.method \notin PdMethods
    /\ PdRaise("ValueError", "Illegal value for method.")
    /\ UNCHANGED <<pd_arg, pd_caller, pd_signal, pd_k2, pd_pos, pd_n,
                   pd_position, pd_amp, pd_delta, pd_index, pd_ret>>
    /\ UNCHANGED PdOthers

\* lines 115-122
PdCopy ==
    /\ pd_pc = "entry"
    /\ pd_arg.method \in PdMethods
    /\ pd_k2' = IF pd_arg.k2.none THEN DefaultK2(pd_arg.method) ELSE pd_arg.k2.v
    /\ pd_signal' = NpArray(pd_caller)
    /\ pd_pc' = "clean"
    /\ UNCHANGED <<pd_arg, pd_caller, pd_pos, pd_n, pd_position, pd_amp,
                   pd_delta, pd_index, pd_err, pd_ret>>
    /\ UNCHANGED PdOthers

\* lines 123-125: np.min of an empty array
PdRaiseNoFinite ==
    /\ pd_pc = "clean"
    /\ FiniteIndices(pd_signal.data) = {}
    /\ PdRaise("ValueError", "zero-size array to reduction operation minimum")
    /\ UNCHANGED <<pd_arg, pd_caller, pd_signal, pd_k2, pd_pos, pd_n,
                   pd_position, pd_amp, pd_delta, pd_index, pd_ret>>
    /\ UNCHANGED PdOthers

\* lines 123-125: the store goes to the array that signal refers to
PdClean ==
    /\ pd_pc = "clean"
    /\ FiniteIndices(pd_signal.data) # {}
    /\ pd_signal' = [pd_signal EXCEPT !.data = Cleaned(pd_signal.data)]
    /\ pd_caller' = IF pd_signal.alias THEN Cleaned(pd_signal.data) ELSE pd_caller
    /\ pd_pc' = "method"
    /\ UNCHANGED <<pd_arg, pd_k2, pd_pos, pd_n, pd_position, pd_amp,
                   pd_delta, pd_index, pd_err, pd_ret>>
    /\ UNCHANGED PdOthers

\* lines 128-129, 136-143
PdKStd ==
    /\ pd_pc = "method"
    /\ pd_arg.method = "kStdThreshold"
    /\ pd_pos' = KStdPeaks(Vals(pd_signal.data), pd_arg.k)
    /\ pd_pc' = "sort"
    /\ UNCHANGED <<pd_arg, pd_caller, pd_signal, pd_k2, pd_n, pd_position,
                   pd_amp, pd_delta, pd_index, pd_err, pd_ret>>
    /\ UNCHANGED PdOthers

\* lines 130-133, 188, 163-164
PdRaiseMindist ==
    /\ pd_pc = "method"
    /\ pd_arg.method \in {"diff", "diffInterp"}
    /\ pd_arg.k <= 0
    /\ PdRaise("ValueError", "The minimum distance beetween peaks cannot be 0 or negative.")
    /\ UNCHANGED <<pd_arg, pd_caller, pd_signal, pd_k2, pd_pos, pd_n,
                   pd_position, pd_amp, pd_delta, pd_index, pd_ret>>
    /\ UNCHANGED PdOthers

\* lines 130-133, 188, 163-172
PdDiff ==
    /\ pd_pc = "method"
    /\ pd_arg.method \in {"diff", "diffInterp"}
    /\ pd_arg.k > 0
    /\ pd_pos' = DiffPeaks(Vals(pd_signal.data))
    /\ pd_pc' = "sort"
    /\ UNCHANGED <<pd_arg, pd_caller, pd_signal, pd_k2, pd_n, pd_position,
                   pd_amp, pd_delta, pd_index, pd_err, pd_ret>>
    /\ UNCHANGED PdOthers

\* lines 223-226
PsSort ==
    /\ pd_pc = "sort"
    /\ pd_pos' = ArgSortDesc(pd_pos, Vals(pd_signal.data))
    /\ pd_n' = 0
    /\ pd_pc' = "select"
    /\ UNCHANGED <<pd_arg, pd_caller, pd_signal, pd_k2, pd_position, pd_amp,
                   pd_delta, pd_index, pd_err, pd_ret>>
    /\ UNCHANGED PdOthers

\* lines 227-236
PsStep ==
    /\ pd_pc = "select"
    /\ BelowNmax(pd_n, pd_arg.Nmax)
    /\ Len(pd_pos) > pd_n
    /\ pd_pos' = FarPeaks(pd_pos, pd_n, Mindist)
    /\ pd_n' = pd_n + 1
    /\ UNCHANGED <<pd_arg, pd_caller, pd_pc, pd_signal, pd_k2, pd_position,
                   pd_amp, pd_delta, pd_index, pd_err, pd_ret>>
    /\ UNCHANGED PdOthers

\* line 240, then line 155 or 176 of the caller, then line 193
PsReturn ==
    /\ pd_pc = "select"
    /\ ~(BelowNmax(pd_n, pd_arg.Nmax) /\ Len(pd_pos) > pd_n)
    /\ LET position == SortAsc(SubSeq(pd_pos, 1, pd_n))
       IN /\ pd_position' = position
          /\ pd_amp' = [i \in 1..Len(position) |-> pd_signal.data[position[i] + 1].v]
    /\ pd_index' = 0
    /\ pd_delta' = [array |-> TRUE, v |-> 0]
    /\ pd_pc' = IF pd_arg.method = "diffInterp" THEN "refine" ELSE "return"
    /\ UNCHANGED <<pd_arg, pd_caller, pd_signal, pd_k2, pd_pos, pd_n, pd_err,
                   pd_ret>>
    /\ UNCHANGED PdOthers

\* lines 194-196: the position is left as it is
PdRefineSkip ==
    /\ pd_pc = "refine"
    /\ pd_index < Len(pd_position)
    /\ ~Refinable(pd_position[pd_index + 1], Len(pd_signal.data))
    /\ pd_index' = pd_index + 1
    /\ UNCHANGED <<pd_arg, pd_caller, pd_pc, pd_signal, pd_k2, pd_pos, pd_n,
                   pd_position, pd_amp, pd_delta, pd_err, pd_ret>>
    /\ UNCHANGED PdOthers

\* lines 194-200, delta being np.arange(-10, 11)
PdRefine ==
    /\ pd_pc = "refine"
    /\ pd_index < Len(pd_position)
    /\ LET pos == pd_position[pd_index + 1]
           N == Len(pd_signal.data)
           am == RefineArgmax(Vals(pd_signal.data), pos, pd_k2)
       IN /\ Refinable(pos, N)
          /\ pd_delta.array
          /\ pos + RefineSpan < N
          /\ pd_delta' = [array |-> FALSE, v |-> am]
          /\ pd_position' = [pd_position EXCEPT ![pd_index + 1] = RefinedPos(pos, am, pd_k2)]
    /\ pd_index' = pd_index + 1
    /\ UNCHANGED <<pd_arg, pd_caller, pd_pc, pd_signal, pd_k2, pd_pos, pd_n,
                   pd_amp, pd_err, pd_ret>>
    /\ UNCHANGED PdOthers

\* line 197: signal[pos+delta] reads past the end of the signal
PdRefineIndexError ==
    /\ pd_pc = "refine"
    /\ pd_index < Len(pd_position)
    /\ LET pos == pd_position[pd_index + 1]
           N == Len(pd_signal.data)
       IN /\ Refinable(pos, N)
          /\ pos + (IF pd_delta.array THEN RefineSpan ELSE pd_delta.v) >= N
    /\ PdRaise("IndexError", "index out of bounds")
    /\ UNCHANGED <<pd_arg, pd_caller, pd_signal, pd_k2, pd_pos, pd_n,
                   pd_position, pd_amp, pd_delta, pd_index, pd_ret>>
    /\ UNCHANGED PdOthers

\* line 197: delta was replaced by a number on line 199, interp1d is handed
\* two numbers instead of two vectors
PdRefineScalarError ==
    /\ pd_pc = "refine"
    /\ pd_index < Len(pd_position)
    /\ LET pos == pd_position[pd_index + 1]
           N == Len(pd_signal.data)
       IN /\ Refinable(pos, N)
          /\ ~pd_delta.array
          /\ pos + pd_delta.v < N
    /\ PdRaise("ValueError", "the x array must have exactly one dimension.")
    /\ UNCHANGED <<pd_arg, pd_caller, pd_signal, pd_k2, pd_pos, pd_n,
                   pd_position, pd_amp, pd_delta, pd_index, pd_ret>>
    /\ UNCHANGED PdOthers

\* lines 157, 178, 202
PdReturn ==
    /\ \/ pd_pc = "return"
       \/ pd_pc = "refine" /\ pd_index = Len(pd_position)
    /\ pd_ret' = [arity |-> 2, position |-> pd_position, amp |-> pd_amp]
    /\ pd_pc' = "returned"
    /\ UNCHANGED <<pd_arg, pd_caller, pd_signal, pd_k2, pd_pos, pd_n,
                   pd_position, pd_amp, pd_delta, pd_index, pd_err>>
    /\ UNCHANGED PdOthers

InitPeakDetection ==
    /\ pd_arg \in PeakDetectionArgs
    /\ pd_caller = pd_arg.signal
    /\ pd_pc = "entry"
    /\ pd_signal = [alias |-> FALSE, data |-> <<>>]
    /\ pd_k2 = 0
    /\ pd_pos = <<>>
    /\ pd_n = 0
    /\ pd_position = <<>>
    /\ pd_amp = <<>>
    /\ pd_delta = [array |-> TRUE, v |-> 0]
    /\ pd_index = 0
    /\ pd_err = NoError
    /\ pd_ret = NoResult
    /\ SaIdle
    /\ CsIdle
    /\ S2Idle
    /\ P2Idle

NextPeakDetection ==
    \/ PdRaiseMethod
    \/ PdCopy
    \/ PdRaiseNoFinite
    \/ PdClean
    \/ PdKStd
    \/ PdRaiseMindist
    \/ PdDiff
    \/ PsSort
    \/ PsStep
    \/ PsReturn
    \/ PdRefineSkip
    \/ PdRefine
    \/ PdRefineIndexError
    \/ PdRefineScalarError
    \/ PdReturn

SpecPeakDetection == InitPeakDetection /\ [][NextPeakDetection]_vars

---------------------------------------------------------------------------
(* peakDetection: properties *)

PdReturned == pd_pc = "returned"

\* C17: for every method, the positions and amplitudes returned by
\* peakDetection are ordered by descending amplitude: each returned amplitude
\* is the value of the cleaned signal at its position, and no amplitude is
\* greater than the one before it.
C17_SortedByAmplitude ==
    PdReturned =>
        \A i \in 1..Len(pd_ret.amp) : \A j \in 1..Len(pd_ret.amp) :
           i < j => pd_ret.amp[i] >= pd_ret.amp[j]

\* what the code does instead: the positions are returned in increasing
\* order, when no position was refined
C17_SortedByPosition ==
    (PdReturned /\ pd_arg.method # "diffInterp") =>
        \A i \in 1..Len(pd_ret.position) : \A j \in 1..Len(pd_ret.position) :
           i < j => pd_ret.position[i] < pd_ret.position[j]

\* C18: for every method and every signal with at least one finite sample,
\* no returned position is the index of a sample that is NaN or infinite.
C18_NoPeakOnNotFinite ==
    (PdReturned /\ FiniteIndices(pd_arg.signal) # {}) =>
        \A i \in 1..Len(pd_ret.position) :
           pd_ret.position[i] + 1 \in FiniteIndices(pd_arg.signal)

\* the statement of C18 for the method kStdThreshold
C18_OnKStdThreshold ==
    pd_arg.method = "kStdThreshold" => C18_NoPeakOnNotFinite


---------------------------------------------------------------------------
(* synchronisation2: arguments *)

S2MaxPeriod == 2
S2MaxCepsCycles == 2

\* lines 207-208: the correlation is interpolated 10 times finer; a delta is
\* kept as a whole number of tenths of a sample
InterpFactor == 10

\* the signals tried with a period of P samples: up to two periods long
S2Samples == {0, 1}
S2MaxLen(P) == 2 * P
S2Signals(P) == VectorsOver(S2Samples, S2MaxLen(P))

\* longer signals, tried with the method threshold: up to four periods and
\* one sample long, all zero but for at most two samples
S2LongLen(P) == 4 * P + 1
S2PulseSignals(P) ==
    {[i \in 1..n |-> IF i \in ones THEN 1 ELSE 0] :
        n \in (S2MaxLen(P) + 1)..S2LongLen(P),
        ones \in {{}} \cup {{a, b} : a, b \in 1..S2LongLen(P)}}

\* the signal 0, 1, ..., n-1, used with the methods whose estimate is left open
Ramp(n) == [i \in 1..n |-> i - 1]
S2Ramps(P) == {Ramp(n) : n \in 1..S2MaxLen(P)}

\* period is an int, or a vector holding the reference signal
ScalarPeriod(P) == [scalar |-> TRUE, P |-> P, ref |-> <<>>]
VectorPeriod(ref) == [scalar |-> FALSE, P |-> Len(ref), ref |-> ref]
S2Periods ==
    {ScalarPeriod(P) : P \in 1..S2MaxPeriod} \cup {VectorPeriod(<<0, 0, 1>>)}

\* param is None, a number, or a tuple (threshold, min_slope)
ScalarParam(x) == [kind |-> "scalar", thr |-> x, slope |-> 0]
PairParam(x, s) == [kind |-> "pair", thr |-> x, slope |-> s]

S2Methods == {"maxCxy", "baryCxy", "maxCxyint", "threshold", "rthreshold", "max", "ceps"}
ScaleOpts == {"none", "biased", "unbiased", "circ"}

\* the (method, param, scaleopt) tried on every signal of S2Signals(P); the
\* last two are a method and a scaleopt that do not exist
S2Settings ==
    {[method |-> m, param |-> NoParam, scaleopt |-> so] :
        m \in {"maxCxy", "baryCxy"}, so \in ScaleOpts}
    \cup {[method |-> "threshold", param |-> p, scaleopt |-> "none"] :
        p \in {NoParam, ScalarParam(1)}}
    \cup {[method |-> "rthreshold", param |-> p, scaleopt |-> "none"] :
        p \in {NoParam, ScalarParam(1), PairParam(1, 1)}}
    \cup {[method |-> "max", param |-> NoParam, scaleopt |-> "none"]}
    \cup {[method |-> "maxcxy", param |-> NoParam, scaleopt |-> "none"]}
    \cup {[method |-> "max", param |-> NoParam, scaleopt |-> "normal"]}

\* the settings tried on the ramps: the two methods whose estimate is left open
S2OpenSettings ==
    {[method |-> "maxCxyint", param |-> NoParam, scaleopt |-> so, P |-> P] :
        so \in {"none", "circ"}, P \in 1..(S2MaxPeriod + 1)}
    \cup {[method |-> "ceps", param |-> NoParam, scaleopt |-> "none", P |-> P] :
        P \in {S2MaxPeriod, S2MaxPeriod + 2}}

Synchronisation2Args ==
    UNION {{[signal |-> sig, period |-> per, method |-> c.method, param |-> c.param,
             scaleopt |-> c.scaleopt, estsync |-> es, compens |-> co] :
               sig \in S2Signals(per.P), c \in S2Settings,
               es \in BOOLEAN, co \in BOOLEAN} : per \in S2Periods}
    \cup {[signal |-> sig, period |-> ScalarPeriod(S2MaxPeriod + 1),
           method |-> "threshold", param |-> ScalarParam(1), scaleopt |-> "none",
           estsync |-> es, compens |-> co] :
             sig \in S2PulseSignals(S2MaxPeriod + 1), es \in BOOLEAN, co \in BOOLEAN}
    \cup UNION {{[signal |-> sig, period |-> ScalarPeriod(c.P), method |-> c.method,
                  param |-> c.param, scaleopt |-> c.scaleopt, estsync |-> es,
                  compens |-> co] :
                    sig \in S2Ramps(c.P), es \in BOOLEAN, co \in BOOLEAN} :
                       c \in S2OpenSettings}

---------------------------------------------------------------------------
(* synchronisation2: helpers *)

\* a delta: a number of tenths of a sample, or NaN
D(x10) == [nan |-> FALSE, d10 |-> x10]
DeltaNaN == [nan |-> TRUE, d10 |-> 0]

\* mutation of Trunc10: the floor
Floor10(x10) == x10 \div InterpFactor

\* int(x) for x given in tenths: truncation towards zero
Trunc10(x10) ==
    IF x10 >= 0 THEN x10 \div InterpFactor ELSE -((-x10) \div InterpFactor)

\* signal[i] for a python index i, negative indices counting from the end
PyValid(i, L) == -L <= i /\ i < L
PyAt(sig, i) == IF i >= 0 THEN sig[i + 1] ELSE sig[Len(sig) + i + 1]

\* signal[t + shift] for t = t0, ..., t0 + P - 1
Window(sig, t0, P) == [j \in 1..P |-> PyAt(sig, t0 + j - 1)]
WindowValid(L, t0, P) == \A j \in 1..P : PyValid(t0 + j - 1, L)

\* line 184: t[-1] < len(signal)
WindowFits(t0, P, L) == t0 + P - 1 < L

\* line 191: sigp.correlate(reference, signal[t], 'full'), entry k (from 0):
\* the sum over l of reference[l] * window[l - k + P - 1]
CorrelateFull(ref, win) ==
    LET P == Len(win)
    IN [k1 \in 1..(Len(ref) + P - 1) |->
          SumSeq([l1 \in 1..Len(ref) |->
                    IF l1 - k1 + P >= 1 /\ l1 - k1 + P <= P
                    THEN ref[l1] * win[l1 - k1 + P] ELSE 0])]

\* line 188: sigp.correlate(reference, np.tile(signal[t], 2), 'valid'),
\* entry j (from 0): the sum over l of reference[l] * tiled[l + P - j]
CorrelateCirc(ref, win) ==
    LET P == Len(win)
    IN [j1 \in 1..(P + 1) |->
          SumSeq([l1 \in 1..Len(ref) |-> ref[l1] * win[((l1 + P - j1) % P) + 1]])]

\* lines 166-174: normCorr for entry k1 of the correlation
NormCorr(scaleopt, P, k1) ==
    CASE scaleopt = "biased" -> P
      [] scaleopt = "unbiased" -> P - Abs(k1 - P)
      [] OTHER -> 1

\* lines 187-191: the correlation, entry k1 being the fraction n / d
Correlation(ref, win, scaleopt) ==
    IF scaleopt = "circ"
    THEN [k1 \in 1..(Len(win) + 1) |-> [n |-> CorrelateCirc(ref, win)[k1], d |-> 1]]
    ELSE [k1 \in 1..(Len(ref) + Len(win) - 1) |->
            [n |-> CorrelateFull(ref, win)[k1], d |-> NormCorr(scaleopt, Len(win), k1)]]

\* the number of entries of the correlation
CorrLen(P, scaleopt) == IF scaleopt = "circ" THEN P + 1 ELSE 2 * P - 1

\* np.argmax of a sequence of integers, counted from 0: the first maximum
ArgmaxInt(x) ==
    (CHOOSE k \in 1..Len(x) :
        /\ \A i \in 1..Len(x) : x[i] <= x[k]
        /\ \A i \in 1..(k - 1) : x[i] < x[k]) - 1

\* mutation of ArgmaxFrac: the last maximum
ArgmaxFracLast(c) ==
    (CHOOSE k \in 1..Len(c) :
        /\ \A i \in 1..Len(c) : c[i].n * c[k].d <= c[k].n * c[i].d
        /\ \A i \in (k + 1)..Len(c) : c[i].n * c[k].d < c[k].n * c[i].d) - 1

\* line 196: np.argmax(correlation), counted from 0
ArgmaxFrac(c) ==
    (CHOOSE k \in 1..Len(c) :
        /\ \A i \in 1..Len(c) : c[i].n * c[k].d <= c[k].n * c[i].d
        /\ \A i \in 1..(k - 1) : c[i].n * c[k].d < c[k].n * c[i].d) - 1

RECURSIVE Factorial(_)
Factorial(n) == IF n <= 1 THEN 1 ELSE n * Factorial(n - 1)

\* np.round of num / den, for num >= 0 and den > 0: halves go to the even
RoundHalfEven(num, den) ==
    LET q == num \div den
        r == num % den
    IN IF 2 * r < den THEN q
       ELSE IF 2 * r > den THEN q + 1
       ELSE IF q % 2 = 0 THEN q ELSE q + 1

\* line 202: weight * xi can be formed when both have 2P-1 entries or one of
\* them has a single entry
BaryBroadcasts(P, scaleopt) ==
    CorrLen(P, scaleopt) = 2 * P - 1 \/ CorrLen(P, scaleopt) = 1 \/ 2 * P - 1 = 1

\* lines 200-202: the weights |correlation| brought to the denominator P!
BaryWeights(c, P) ==
    [k1 \in 1..Len(c) |-> Abs(c[k1].n) * (Factorial(P) \div c[k1].d)]

\* lines 200-203: round(sum(weight * xi) / sum(weight)) - period + offset,
\* or NaN when the weights are all zero
BaryDelta(c, P, offset) ==
    LET w == BaryWeights(c, P)
        xi(k1) == IF 2 * P - 1 = 1 THEN 1 ELSE k1
        num == SumSeq([k1 \in 1..Len(w) |-> w[k1] * xi(k1)])
        den == SumSeq(w)
    IN IF den = 0 THEN DeltaNaN
       ELSE D(InterpFactor * (RoundHalfEven(num, den) - P + offset))

\* lines 214-215, 223-224: indice[0], the first of the indices of the window
\* (from 0) that np.where found, or -1 when it found none
FirstHit(indice) ==
    IF indice # {} THEN CHOOSE j \in indice : \A i \in indice : j <= i ELSE -1

\* lines 216-218, 225-227
HitDelta(indice, offset) ==
    IF indice >= 0 THEN D(InterpFactor * (-indice + offset)) ELSE D(0)

\* line 223: signal[t+2]-signal[t] > param[1]/2 and signal[t+1] >= param[0]
RisingHit(sig, i, param) ==
    /\ 2 * (PyAt(sig, i + 2) - PyAt(sig, i)) > param.slope
    /\ PyAt(sig, i + 1) >= param.thr

\* lines 242-245: the positions peakDetection can return for a cepstrum of
\* N samples
CepsLen(P) == 4 * P - 1
CepsPositions(P) == 0..(CepsLen(P) - 1)

\* the number of cycles after which the loop is no longer followed
CycleCap(method) ==
    IF method = "ceps" THEN S2MaxCepsCycles ELSE S2LongLen(S2MaxPeriod + 1) + 1

\* lines 250-251
Compensation10(delta, offset) == delta.d10 - InterpFactor * offset
NeedsCompensation(delta, offset) ==
    ~delta.nan /\ Abs(Compensation10(delta, offset)) > InterpFactor

\* line 268: delta - delta[0]
Delta2(delta, i) ==
    IF delta[i].nan \/ delta[1].nan THEN DeltaNaN ELSE D(delta[i].d10 - delta[1].d10)

\* mutation of ExtractStart: the rows are taken one period later
ExtractStartNext(index, P, d2) == (index + 1) * P - Trunc10(d2.d10)

\* lines 273-274: t[0] - int(delta2[index]) for t = index*period + arange(period)
ExtractStart(index, P, d2) == index * P - Trunc10(d2.d10)

\* line 276: decdec, in tenths
Decdec(d2) == d2.d10 - InterpFactor * Trunc10(d2.d10)

\* a row of synchr: samples, shifted by shift10 tenths of a sample by
\* circShift (in the frequency domain: the shifted values are not computed)
Row(samples, shift10) == [samples |-> samples, shift10 |-> shift10]
ZeroRow(P) == Row([j \in 1..P |-> 0], 0)


---------------------------------------------------------------------------
(* synchronisation2: actions *)

S2Raise(type, msg) ==
    /\ s2_pc' = "raised"
    /\ s2_err' = [type |-> type, msg |-> msg]

S2Others == <<sa_vars, cs_vars, pd_vars, p2_vars>>
S2Frame == <<s2_arg, s2_signal, s2_period, s2_reference>>
S2Locals == <<s2_t0, s2_offset, s2_delta, s2_index, s2_synchr>>

\* line 155: method in ('rthreshold','threshold') and param==None
ParamMissing(method, param) ==
    method \in {"rthreshold", "threshold"} /\ param.kind = "none"

\* lines 152-153
S2RaiseMethod ==
    /\ s2_pc = "entry"
    /\ s2_arg.method \notin S2Methods
    /\ S2Raise("ValueError", "Illegal value for method.")
    /\ UNCHANGED <<S2Frame, S2Locals, s2_ret>>
    /\ UNCHANGED S2Others

\* lines 155-156
S2RaiseParam ==
    /\ s2_pc = "entry"
    /\ s2_arg.method \in S2Methods
    /\ ParamMissing(s2_arg.method, s2_arg.param)
    /\ S2Raise("ValueError", "You should give a threshold in param for threshold and trigger methods")
    /\ UNCHANGED <<S2Frame, S2Locals, s2_ret>>
    /\ UNCHANGED S2Others

\* lines 159-176
S2RaiseScaleopt ==
    /\ s2_pc = "entry"
    /\ s2_arg.method \in S2Methods
    /\ ~ParamMissing(s2_arg.method, s2_arg.param)
    /\ s2_arg.scaleopt \notin ScaleOpts
    /\ S2Raise("ValueError", "Illegal value for scaleopt")
    /\ UNCHANGED <<S2Frame, S2Locals, s2_ret>>
    /\ UNCHANGED S2Others

\* lines 159-182
S2Setup ==
    /\ s2_pc = "entry"
    /\ s2_arg.method \in S2Methods
    /\ ~ParamMissing(s2_arg.method, s2_arg.param)
    /\ s2_arg.scaleopt \in ScaleOpts
    /\ s2_period' = s2_arg.period.P
    /\ s2_reference' =
         IF s2_arg.period.scalar
         THEN SubSeq(s2_signal, 1, IF s2_arg.period.P < Len(s2_signal)
                                   THEN s2_arg.period.P ELSE Len(s2_signal))
         ELSE s2_arg.period.ref
    /\ s2_t0' = 0
    /\ s2_offset' = 0
    /\ s2_delta' = <<>>
    /\ s2_pc' = "loop"
    /\ UNCHANGED <<s2_arg, s2_signal, s2_index, s2_synchr, s2_err, s2_ret>>
    /\ UNCHANGED S2Others

\* line 184: the body of the while loop is entered
LoopRuns ==
    /\ s2_pc = "loop"
    /\ WindowFits(s2_t0, s2_period, Len(s2_signal))
    /\ Len(s2_delta) < CycleCap(s2_arg.method)

\* the correlation of lines 186-191 for the current window
CurrentCorrelation ==
    Correlation(s2_reference, Window(s2_signal, s2_t0, s2_period), s2_arg.scaleopt)

\* delta.append(d), then line 248
S2Append(d) ==
    /\ s2_delta' = Append(s2_delta, d)
    /\ s2_pc' = "compens"
    /\ UNCHANGED <<S2Frame, s2_t0, s2_offset, s2_index, s2_synchr, s2_err, s2_ret>>
    /\ UNCHANGED S2Others

\* signal[t] with an index below -len(signal)
S2WindowIndexError ==
    /\ LoopRuns
    /\ ~WindowValid(Len(s2_signal), s2_t0, s2_period)
    /\ S2Raise("IndexError", "index out of bounds")
    /\ UNCHANGED <<S2Frame, S2Locals, s2_ret>>
    /\ UNCHANGED S2Others

\* lines 186-197
S2MaxCxy ==
    /\ LoopRuns
    /\ WindowValid(Len(s2_signal), s2_t0, s2_period)
    /\ s2_arg.method = "maxCxy"
    /\ S2Append(D(InterpFactor * (ArgmaxFrac(CurrentCorrelation) - s2_period + s2_offset)))

\* lines 199-202: weight*xi cannot be formed
S2BaryCxyError ==
    /\ LoopRuns
    /\ WindowValid(Len(s2_signal), s2_t0, s2_period)
    /\ s2_arg.method = "baryCxy"
    /\ ~BaryBroadcasts(s2_period, s2_arg.scaleopt)
    /\ S2Raise("ValueError", "operands could not be broadcast together")
    /\ UNCHANGED <<S2Frame, S2Locals, s2_ret>>
    /\ UNCHANGED S2Others

\* lines 186-191, 199-203
S2BaryCxy ==
    /\ LoopRuns
    /\ WindowValid(Len(s2_signal), s2_t0, s2_period)
    /\ s2_arg.method = "baryCxy"
    /\ BaryBroadcasts(s2_period, s2_arg.scaleopt)
    /\ S2Append(BaryDelta(CurrentCorrelation, s2_period, s2_offset))

\* line 206: interp1d(kind='cubic') on fewer than 4 points
S2InterpTooShort ==
    /\ LoopRuns
    /\ WindowValid(Len(s2_signal), s2_t0, s2_period)
    /\ s2_arg.method = "maxCxyint"
    /\ CorrLen(s2_period, s2_arg.scaleopt) < MinCubicPoints
    /\ S2Raise("ValueError", "The number of derivatives at boundaries does not match")
    /\ UNCHANGED <<S2Frame, S2Locals, s2_ret>>
    /\ UNCHANGED S2Others

\* lines 205-209: the maximum of the interpolated correlation is at one of
\* the (len(correlation)-1)*10 points of the fine grid; which one is left open
S2MaxCxyint ==
    /\ LoopRuns
    /\ WindowValid(Len(s2_signal), s2_t0, s2_period)
    /\ s2_arg.method = "maxCxyint"
    /\ CorrLen(s2_period, s2_arg.scaleopt) >= MinCubicPoints
    /\ \E j \in 0..((CorrLen(s2_period, s2_arg.scaleopt) - 1) * InterpFactor - 1) :
          S2Append(D(j - InterpFactor * s2_period + InterpFactor * s2_offset))

\* lines 211-218
S2Threshold ==
    /\ LoopRuns
    /\ WindowValid(Len(s2_signal), s2_t0, s2_period)
    /\ s2_arg.method = "threshold"
    /\ LET indice == {j \in 0..(s2_period - 1) :
                         PyAt(s2_signal, s2_t0 + j) >= s2_arg.param.thr}
       IN S2Append(HitDelta(FirstHit(indice), s2_offset))

\* line 223: signal[t-dec+2] reads past the end of the signal
S2RThresholdIndexError ==
    /\ LoopRuns
    /\ s2_arg.method = "rthreshold"
    /\ ~WindowValid(Len(s2_signal), s2_t0 + 2, s2_period)
    /\ S2Raise("IndexError", "index out of bounds")
    /\ UNCHANGED <<S2Frame, S2Locals, s2_ret>>
    /\ UNCHANGED S2Others

\* line 223: param[1] when param is a number
S2RThresholdTypeError ==
    /\ LoopRuns
    /\ s2_arg.method = "rthreshold"
    /\ WindowValid(Len(s2_signal), s2_t0 + 2, s2_period)
    /\ WindowValid(Len(s2_signal), s2_t0, s2_period)
    /\ s2_arg.param.kind = "scalar"
    /\ S2Raise("TypeError", "object is not subscriptable")
    /\ UNCHANGED <<S2Frame, S2Locals, s2_ret>>
    /\ UNCHANGED S2Others

\* lines 220-227
S2RThreshold ==
    /\ LoopRuns
    /\ s2_arg.method = "rthreshold"
    /\ WindowValid(Len(s2_signal), s2_t0 + 2, s2_period)
    /\ WindowValid(Len(s2_signal), s2_t0, s2_period)
    /\ s2_arg.param.kind = "pair"
    /\ LET indice == {j \in 0..(s2_period - 1) :
                         RisingHit(s2_signal, s2_t0 + j, s2_arg.param)}
       IN S2Append(HitDelta(FirstHit(indice), s2_offset))

\* lines 229-234
S2Max ==
    /\ LoopRuns
    /\ WindowValid(Len(s2_signal), s2_t0, s2_period)
    /\ s2_arg.method = "max"
    /\ S2Append(D(InterpFactor *
                  (-ArgmaxInt(Window(s2_signal, s2_t0, s2_period)) + s2_offset)))

\* lines 236-246: the peak of the cepstrum that is nearest to period is one
\* of the positions of the cepstrum; which one is left open
S2Ceps ==
    /\ LoopRuns
    /\ WindowValid(Len(s2_signal), s2_t0, s2_period)
    /\ s2_arg.method = "ceps"
    /\ \E position \in CepsPositions(s2_period) :
          S2Append(D(InterpFactor * (position - 1 - s2_period + s2_offset)))

\* line 242: peakDetection(cepstre,'diffInterp',10,10,10) refines a peak
\* whose neighbourhood ends past the cepstrum (line 197 of peakDetection)
S2CepsPeakError ==
    /\ LoopRuns
    /\ WindowValid(Len(s2_signal), s2_t0, s2_period)
    /\ s2_arg.method = "ceps"
    /\ \E pos \in CepsPositions(s2_period) :
          /\ Refinable(pos, CepsLen(s2_period))
          /\ pos + RefineSpan >= CepsLen(s2_period)
    /\ S2Raise("IndexError", "index out of bounds")
    /\ UNCHANGED <<S2Frame, S2Locals, s2_ret>>
    /\ UNCHANGED S2Others

\* mutation of S2Compensate: the window is moved and offset is not updated
S2CompensateKeepOffset ==
    /\ s2_pc = "compens"
    /\ LET last == s2_delta[Len(s2_delta)]
           compensation == Trunc10(Compensation10(last, s2_offset))
       IN s2_t0' = IF s2_arg.compens /\ NeedsCompensation(last, s2_offset)
                   THEN s2_t0 - compensation + s2_period
                   ELSE s2_t0 + s2_period
    /\ s2_pc' = "loop"
    /\ UNCHANGED <<S2Frame, s2_offset, s2_delta, s2_index, s2_synchr, s2_err, s2_ret>>
    /\ UNCHANGED S2Others

\* lines 248-258
S2Compensate ==
    /\ s2_pc = "compens"
    /\ LET last == s2_delta[Len(s2_delta)]
           compensation == Trunc10(Compensation10(last, s2_offset))
       IN IF s2_arg.compens /\ NeedsCompensation(last, s2_offset)
          THEN /\ s2_t0' = s2_t0 - compensation + s2_period
               /\ s2_offset' = s2_offset + compensation
          ELSE /\ s2_t0' = s2_t0 + s2_period
               /\ s2_offset' = s2_offset
    /\ s2_pc' = "loop"
    /\ UNCHANGED <<S2Frame, s2_delta, s2_index, s2_synchr, s2_err, s2_ret>>
    /\ UNCHANGED S2Others

\* lines 184, 263, 267, 284, 321
S2ReturnDelta ==
    /\ s2_pc = "loop"
    /\ ~WindowFits(s2_t0, s2_period, Len(s2_signal))
    /\ ~s2_arg.estsync
    /\ s2_ret' = [arity |-> 2, synchr |-> NoEnsemble, delta |-> s2_delta]
    /\ s2_pc' = "returned"
    /\ UNCHANGED <<S2Frame, S2Locals, s2_err>>
    /\ UNCHANGED S2Others

\* lines 184, 263, 267-268: delta[0] of an empty delta
S2RaiseEmptyDelta ==
    /\ s2_pc = "loop"
    /\ ~WindowFits(s2_t0, s2_period, Len(s2_signal))
    /\ s2_arg.estsync
    /\ s2_delta = <<>>
    /\ S2Raise("IndexError", "index 0 is out of bounds for axis 0 with size 0")
    /\ UNCHANGED <<S2Frame, S2Locals, s2_ret>>
    /\ UNCHANGED S2Others

\* lines 184, 263, 267-271
S2StartSynchr ==
    /\ s2_pc = "loop"
    /\ ~WindowFits(s2_t0, s2_period, Len(s2_signal))
    /\ s2_arg.estsync
    /\ s2_delta # <<>>
    /\ s2_synchr' = [i \in 1..Len(s2_delta) |-> ZeroRow(s2_period)]
    /\ s2_index' = 0
    /\ s2_pc' = "synchr"
    /\ UNCHANGED <<S2Frame, s2_t0, s2_offset, s2_delta, s2_err, s2_ret>>
    /\ UNCHANGED S2Others

\* line 272: the body of the for loop is entered
RowRuns == s2_pc = "synchr" /\ s2_index < Len(s2_delta)

CurrentDelta2 == Delta2(s2_delta, s2_index + 1)
CurrentStart == ExtractStart(s2_index, s2_period, CurrentDelta2)

\* line 273: int(delta2[index]) of a NaN
S2RowNaN ==
    /\ RowRuns
    /\ CurrentDelta2.nan
    /\ S2Raise("ValueError", "cannot convert float NaN to integer")
    /\ UNCHANGED <<S2Frame, S2Locals, s2_ret>>
    /\ UNCHANGED S2Others

\* lines 273, 280: the row is left as it is
S2RowSkip ==
    /\ RowRuns
    /\ ~CurrentDelta2.nan
    /\ ~WindowFits(CurrentStart, s2_period, Len(s2_signal))
    /\ s2_index' = s2_index + 1
    /\ UNCHANGED <<S2Frame, s2_pc, s2_t0, s2_offset, s2_delta, s2_synchr, s2_err, s2_ret>>
    /\ UNCHANGED S2Others

\* line 274: signal[t-int(delta2[index])] with an index below -len(signal)
S2RowIndexError ==
    /\ RowRuns
    /\ ~CurrentDelta2.nan
    /\ WindowFits(CurrentStart, s2_period, Len(s2_signal))
    /\ ~WindowValid(Len(s2_signal), CurrentStart, s2_period)
    /\ S2Raise("IndexError", "index out of bounds")
    /\ UNCHANGED <<S2Frame, S2Locals, s2_ret>>
    /\ UNCHANGED S2Others

\* lines 273-280 with decdec = 0
S2RowCopy ==
    /\ RowRuns
    /\ ~CurrentDelta2.nan
    /\ WindowFits(CurrentStart, s2_period, Len(s2_signal))
    /\ WindowValid(Len(s2_signal), CurrentStart, s2_period)
    /\ Decdec(CurrentDelta2) = 0
    /\ s2_synchr' = [s2_synchr EXCEPT ![s2_index + 1] =
                        Row(Window(s2_signal, CurrentStart, s2_period), 0)]
    /\ s2_index' = s2_index + 1
    /\ UNCHANGED <<S2Frame, s2_pc, s2_t0, s2_offset, s2_delta, s2_err, s2_ret>>
    /\ UNCHANGED S2Others

\* lines 273-280 with decdec != 0: extrait=circShift(extrait,decdec)
S2RowShift ==
    /\ RowRuns
    /\ ~CurrentDelta2.nan
    /\ WindowFits(CurrentStart, s2_period, Len(s2_signal))
    /\ WindowValid(Len(s2_signal), CurrentStart, s2_period)
    /\ Decdec(CurrentDelta2) # 0
    /\ s2_synchr' = [s2_synchr EXCEPT ![s2_index + 1] =
                        Row(Window(s2_signal, CurrentStart, s2_period),
                            Decdec(CurrentDelta2))]
    /\ s2_index' = s2_index + 1
    /\ UNCHANGED <<S2Frame, s2_pc, s2_t0, s2_offset, s2_delta, s2_err, s2_ret>>
    /\ UNCHANGED S2Others

\* lines 272, 321
S2Return ==
    /\ s2_pc = "synchr"
    /\ s2_index = Len(s2_delta)
    /\ s2_ret' = [arity |-> 2, synchr |-> s2_synchr, delta |-> s2_delta]
    /\ s2_pc' = "returned"
    /\ UNCHANGED <<S2Frame, S2Locals, s2_err>>
    /\ UNCHANGED S2Others

InitSynchronisation2 ==
    /\ s2_arg \in Synchronisation2Args
    /\ s2_signal = s2_arg.signal
    /\ s2_pc = "entry"
    /\ s2_period = 0
    /\ s2_reference = <<>>
    /\ s2_t0 = 0
    /\ s2_offset = 0
    /\ s2_delta = <<>>
    /\ s2_index = 0
    /\ s2_synchr = NoEnsemble
    /\ s2_err = NoError
    /\ s2_ret = NoResult
    /\ SaIdle
    /\ CsIdle
    /\ PdIdle
    /\ P2Idle

NextSynchronisation2 ==
    \/ S2RaiseMethod
    \/ S2RaiseParam
    \/ S2RaiseScaleopt
    \/ S2Setup
    \/ S2WindowIndexError
    \/ S2MaxCxy
    \/ S2BaryCxyError
    \/ S2BaryCxy
    \/ S2InterpTooShort
    \/ S2MaxCxyint
    \/ S2Threshold
    \/ S2RThresholdIndexError
    \/ S2RThresholdTypeError
    \/ S2RThreshold
    \/ S2Max
    \/ S2Ceps
    \/ S2CepsPeakError
    \/ S2Compensate
    \/ S2ReturnDelta
    \/ S2RaiseEmptyDelta
    \/ S2StartSynchr
    \/ S2RowNaN
    \/ S2RowSkip
    \/ S2RowIndexError
    \/ S2RowCopy
    \/ S2RowShift
    \/ S2Return

SpecSynchronisation2 == InitSynchronisation2 /\ [][NextSynchronisation2]_vars


---------------------------------------------------------------------------
(* synchronisation2: properties *)

S2Called == s2_pc # "idle"
S2Finished == s2_pc \in {"returned", "raised"}

\* C12 names three invalid calls: a method that is not one of the seven, a
\* threshold method without param, and rthreshold whose param is not a
\* (threshold, min_slope) pair
S2InvalidArguments ==
    \/ s2_arg.method \notin S2Methods
    \/ s2_arg.method \in {"threshold", "rthreshold"} /\ s2_arg.param.kind = "none"
    \/ s2_arg.method = "rthreshold" /\ s2_arg.param.kind # "pair"

\* the call is refused with a ValueError: nothing is estimated, nothing is
\* returned, and the only exception is a ValueError
S2Refused ==
    /\ s2_delta = <<>>
    /\ s2_pc # "returned"
    /\ s2_pc = "raised" => s2_err.type = "ValueError"

\* C12: synchronisation2 raises a ValueError if the method is invalid or a
\* required parameter (threshold value, or threshold and minimum slope for
\* rthreshold) is missing
C12_InvalidArgumentsRaise ==
    (S2Called /\ S2InvalidArguments) => S2Refused

\* C12 for the two cases lines 152-156 test: an invalid method, param=None
C12_OnParamNone ==
    (S2Called /\ (s2_arg.method \notin S2Methods
                  \/ ParamMissing(s2_arg.method, s2_arg.param)))
        => (S2Refused /\ s2_pc \in {"entry", "raised"})

\* the methods whose estimate the model computes from the samples
S2ComputedMethods == {"maxCxy", "baryCxy", "threshold", "rthreshold", "max"}

\* a call C12 does not refuse, with a scaleopt that exists
S2ValidArguments ==
    /\ s2_arg.method \in S2Methods
    /\ s2_arg.scaleopt \in ScaleOpts
    /\ s2_arg.method = "threshold" => s2_arg.param.kind = "scalar"
    /\ s2_arg.method = "rthreshold" => s2_arg.param.kind = "pair"

\* C13: synchronisation2 raises no fatal error for any method, scaleopt and
\* compens, on any signal, also when a window lies within two samples of the
\* end of the signal or the signal is shorter than one period; stated for
\* the methods whose estimate is computed
C13_NoFatalError ==
    (S2Called /\ S2ValidArguments /\ s2_arg.method \in S2ComputedMethods)
        => s2_pc # "raised"

\* C13 for maxCxy, threshold and max when only delta is asked for
C13_OnDeltaOnly ==
    (S2Called /\ S2ValidArguments /\ ~s2_arg.estsync
       /\ s2_arg.method \in {"maxCxy", "threshold", "max"})
        => s2_pc # "raised"


\* the signal is N >= 2 repetitions of its first period samples, and period
\* is given as a number
S2Cycles == Len(s2_signal) \div s2_arg.period.P
S2Tiled ==
    /\ s2_arg.period.scalar
    /\ Len(s2_signal) % s2_arg.period.P = 0
    /\ S2Cycles >= 2
    /\ \A i \in 1..(Len(s2_signal) - s2_arg.period.P) :
          s2_signal[i] = s2_signal[i + s2_arg.period.P]

S2ReferenceCycle == SubSeq(s2_signal, 1, s2_arg.period.P)

\* C14: on a signal made of N >= 2 repetitions of one cycle of period P,
\* synchronisation2(signal, P, method='maxCxy') returns N deltas that are all
\* the same number, and with estsync every row of the ensemble is the
\* reference cycle signal[0:P]
C14_PeriodicSignal ==
    (S2Called /\ S2Tiled /\ s2_arg.method = "maxCxy"
       /\ s2_arg.scaleopt \in ScaleOpts /\ ~s2_arg.compens)
        => /\ s2_pc # "raised"
           /\ s2_pc = "returned" =>
                /\ Len(s2_ret.delta) = S2Cycles
                /\ \A i \in 1..S2Cycles :
                      ~s2_ret.delta[i].nan /\ s2_ret.delta[i] = s2_ret.delta[1]
                /\ s2_arg.estsync =>
                     /\ Len(s2_ret.synchr) = S2Cycles
                     /\ \A i \in 1..S2Cycles :
                           s2_ret.synchr[i] = Row(S2ReferenceCycle, 0)

C14_Witness ==
    /\ s2_pc = "returned"
    /\ s2_arg.signal = <<0, 1, 0, 1>>
    /\ s2_arg.period = ScalarPeriod(2)
    /\ s2_arg.method = "maxCxy"
    /\ s2_arg.estsync
    /\ ~s2_arg.compens
    /\ Len(s2_ret.synchr) = 2
    /\ s2_ret.synchr[2] = Row(<<0, 1>>, 0)


\* d_i = delta[i] - delta[0] of the returned deltas, and the start
\* i*period - int(d_i) of row i (rows counted from 1, i from 0)
S2RowDelta(row) == Delta2(s2_ret.delta, row)
S2RowStart(row) == (row - 1) * s2_period - Trunc10(S2RowDelta(row).d10)

\* row i is the slice of period samples starting at i*period - int(d_i),
\* shifted by the fractional part of d_i, or zero when the slice would end
\* past the signal
S2RowIsSlice(row) ==
    LET d == S2RowDelta(row)
        start == S2RowStart(row)
    IN IF start + s2_period <= Len(s2_signal)
       THEN /\ start >= 0
            /\ s2_ret.synchr[row] =
                 Row(SubSeq(s2_signal, start + 1, start + s2_period),
                     d.d10 - InterpFactor * Trunc10(d.d10))
       ELSE s2_ret.synchr[row] = ZeroRow(s2_period)

\* C15: with estsync the ensemble has one row per delta and period columns;
\* row i is the slice of the signal that starts at i*period - int(d_i), with
\* d_i = delta[i] - delta[0], circularly shifted by the fractional part of
\* d_i, and a row whose slice would end past the signal is zero; stated for
\* the methods whose estimate is computed
C15_EnsembleRows ==
    (s2_pc = "returned" /\ s2_arg.estsync /\ s2_arg.method \in S2ComputedMethods)
        => /\ Len(s2_ret.synchr) = Len(s2_ret.delta)
           /\ \A row \in 1..Len(s2_ret.delta) :
                 /\ Len(s2_ret.synchr[row].samples) = s2_period
                 /\ S2RowIsSlice(row)

\* C15 for every method, on the rows whose start is not negative
C15_OnNonNegativeStarts ==
    (s2_pc = "returned" /\ s2_arg.estsync)
        => /\ Len(s2_ret.synchr) = Len(s2_ret.delta)
           /\ S2RowStart(1) = 0
           /\ \A row \in 1..Len(s2_ret.delta) :
                 /\ Len(s2_ret.synchr[row].samples) = s2_period
                 /\ S2RowStart(row) >= 0 => S2RowIsSlice(row)


\* the correction c = delta[-1] - offset in tenths, and trunc(c)
S2Correction10 == s2_delta[Len(s2_delta)].d10 - InterpFactor * s2_offset
S2CorrectionTrunc ==
    IF S2Correction10 >= 0
    THEN S2Correction10 \div InterpFactor
    ELSE -((-S2Correction10) \div InterpFactor)
S2CorrectionApplies ==
    /\ ~s2_delta[Len(s2_delta)].nan
    /\ S2Correction10 > InterpFactor \/ S2Correction10 < -InterpFactor

\* the step that ends a cycle of the estimation loop
S2CycleEnds == s2_pc = "compens" /\ s2_pc' = "loop"

\* C19: with compens, after each cycle the correction c = delta[-1] - offset
\* is applied exactly when |c| > 1: the next window then starts at
\* start - trunc(c) + period and offset becomes offset + trunc(c); otherwise
\* the next window starts at start + period and offset is unchanged. Without
\* compens, offset stays 0 and the k-th window starts at k*period
C19_DriftCompensation ==
    [][S2CycleEnds =>
         IF s2_arg.compens
         THEN IF S2CorrectionApplies
              THEN /\ s2_t0' = s2_t0 - S2CorrectionTrunc + s2_period
                   /\ s2_offset' = s2_offset + S2CorrectionTrunc
              ELSE /\ s2_t0' = s2_t0 + s2_period
                   /\ s2_offset' = s2_offset
         ELSE /\ s2_offset = 0
              /\ s2_offset' = 0
              /\ s2_t0 = (Len(s2_delta) - 1) * s2_period
              /\ s2_t0' = Len(s2_delta) * s2_period]_vars

\* a correction of -2.5 samples has been applied: offset is -2
C19_Witness ==
    /\ s2_pc = "loop"
    /\ s2_arg.compens
    /\ Len(s2_delta) = 1
    /\ s2_delta[1] = D(-25)
    /\ s2_offset = -2
    /\ s2_t0 = s2_period + 2


---------------------------------------------------------------------------
(* The four routines together: one call of any of them *)

InitCall ==
    \/ InitSyncAv
    \/ InitCircShift
    \/ InitPeakDetection
    \/ InitSynchronisation2

NextCall ==
    \/ NextSyncAv
    \/ NextCircShift
    \/ NextPeakDetection
    \/ NextSynchronisation2

SpecCall == InitCall /\ [][NextCall]_vars

\* the arrays the caller passed: datas of syncAv, datas and shift of
\* circShift, signal of peakDetection, signal and period of synchronisation2
CallerArrays == <<sa_arg, cs_arg, pd_caller, s2_signal, s2_arg>>

\* C16: syncAv, circShift, synchronisation2 and peakDetection never modify
\* the arrays passed by the caller: in every step of a call, up to its
\* return or its exception, the arrays hold the values they held before
C16_CallerArraysUnchanged ==
    [][CallerArrays' = CallerArrays]_vars

\* peakDetection has cleaned its copy of a signal that holds a NaN or an
\* Inf, and the caller's array still holds it
C16_Witness ==
    /\ pd_pc \in {"returned", "raised"}
    /\ \E i \in 1..Len(pd_caller) : pd_caller[i] = NotFinite
    /\ \A i \in 1..Len(pd_signal.data) : pd_signal.data[i] # NotFinite
    /\ Len(pd_signal.data) = Len(pd_caller)


---------------------------------------------------------------------------
(* syncAv: the warnings of the integer path *)

\* C21: in the integer path of syncAv the truncation warning is emitted
\* exactly when L mod blockSize != 0 and the single-block warning exactly
\* when numBlocks = 1; neither warning aborts the call, which still returns
\* the average and numBlocks
C21_IntegerPathWarnings ==
    (IntegerBlocOk /\ SaTerminal) =>
        /\ "truncated" \in sa_warn <=> ArgL % ArgB # 0
        /\ "single" \in sa_warn <=> ArgL \div ArgB = 1
        /\ SaReturned
        /\ sa_ret.nbBlocs = ArgL \div ArgB
        /\ \A r \in 1..Len(sa_ret.sav.rows) : Len(sa_ret.sav.rows[r]) = ArgB

\* the statement of C21 on the inputs other than the 2-D arrays of one row
C21_OffOneRowMatrix ==
    (ArgDatas.ndim = 2 /\ Len(ArgDatas.rows) = 1) \/ C21_IntegerPathWarnings

\* on every input of the integer path the two warnings are emitted exactly
\* in the cases C21 names, whether the call then returns or not
C21_WarningsExact ==
    (IntegerBlocOk /\ SaTerminal) =>
        /\ "truncated" \in sa_warn <=> ArgL % ArgB # 0
        /\ "single" \in sa_warn <=> ArgL \div ArgB = 1


---------------------------------------------------------------------------
(* peakDetection: the selection of the peaks *)

\* the candidate list handed to peakSelection (lines 141, 169), and the
\* amplitude of a candidate
PsCandidates ==
    IF pd_arg.method = "kStdThreshold"
    THEN KStdPeaks(Vals(pd_signal.data), pd_arg.k)
    ELSE DiffPeaks(Vals(pd_signal.data))
PsAmp(p) == pd_signal.data[p + 1].v
PsSet(s) == {s[i] : i \in 1..Len(s)}

\* peakSelection has just returned pd_position
PsReturned == pd_pc \in {"refine", "return"} /\ pd_index = 0

---------------------------------------------------------------------------
(* synchronisation2: the estimation loop *)

\* a cycle of the method threshold appends its delta
S2ThresholdCycle ==
    s2_arg.method = "threshold" /\ s2_pc = "loop" /\ s2_pc' = "compens"

\* the indices, within the current window, of the samples >= the threshold,
\* and the raw offset: the first of them, 0 if there is none
S2Reaching ==
    {j \in 0..(s2_period - 1) : PyAt(s2_signal, s2_t0 + j) >= s2_arg.param.thr}
S2RawOffset ==
    IF S2Reaching = {} THEN 0
    ELSE CHOOSE j \in S2Reaching : \A i \in S2Reaching : j <= i

\* C22: for method threshold the raw offset of a cycle is the index, within
\* the window, of the first sample >= the threshold, and 0 if none reaches
\* it; in every cycle, found or not, the value appended to delta is the raw
\* offset recorded relative to the running offset (-raw + offset)
C22_ThresholdDelta ==
    [][S2ThresholdCycle =>
         s2_delta' = Append(s2_delta, D(InterpFactor * (-S2RawOffset + s2_offset)))]_vars

\* C22 on the cycles in which a sample reaches the threshold, and on all
\* cycles while offset is 0
C22_OnFoundOrZeroOffset ==
    [][(S2ThresholdCycle /\ (S2Reaching # {} \/ s2_offset = 0)) =>
         s2_delta' = Append(s2_delta, D(InterpFactor * (-S2RawOffset + s2_offset)))]_vars


\* the methods C24 names: all but ceps
S2BoundedMethods == S2Methods \ {"ceps"}

\* the estimation loop is running: before an iteration, or at its end before
\* the compensation
S2InLoop == s2_pc \in {"loop", "compens"}

\* the number k of the iteration about to start
S2Iteration == Len(s2_delta)

\* C24: in the estimation loop, for every method but ceps and for either
\* value of compens, (window start) + offset = k * period at the start of
\* the k-th iteration, offset is an integer, and the window start is never
\* negative
C24_WindowStart ==
    (s2_pc = "loop" /\ s2_arg.method \in S2BoundedMethods) =>
        /\ s2_t0 + s2_offset = S2Iteration * s2_period
        /\ s2_offset \in Int
        /\ s2_t0 >= 0

\* two compensations of -(period - 1) samples have moved the third window
C24_Witness ==
    /\ s2_pc = "loop"
    /\ s2_arg.method = "threshold"
    /\ s2_arg.compens
    /\ s2_period = S2MaxPeriod + 1
    /\ S2Iteration = 2
    /\ s2_offset = -2 * (s2_period - 1)
    /\ s2_t0 = 2 * s2_period - s2_offset


\* the progress that bounds the number of iterations: for every method but
\* ceps a correction is at most period - 1, so the k-th window starts at k
\* or later and the loop ends within len(signal) iterations; this is the
\* part of C25 (the loop terminates for every method) that the model settles
C25_OnBoundedMethods ==
    (S2InLoop /\ s2_arg.method \in S2BoundedMethods) =>
        /\ s2_t0 >= (IF s2_pc = "loop" THEN S2Iteration ELSE S2Iteration - 1)
        /\ S2Iteration <= Len(s2_signal)
        /\ S2Iteration < CycleCap(s2_arg.method)

\* C26: with compens the start of the window strictly increases from each
\* iteration to the next, for every method and every signal; stated for the
\* methods whose estimate is computed
C26_WindowAdvances ==
    [][(S2CycleEnds /\ s2_arg.compens /\ s2_arg.method \in S2ComputedMethods)
          => s2_t0' > s2_t0]_vars

\* C26 for the methods maxCxy, baryCxy, maxCxyint and max
C26_OnCorrelationAndMax ==
    [][(S2CycleEnds /\ s2_arg.compens
          /\ s2_arg.method \in {"maxCxy", "baryCxy", "maxCxyint", "max"})
          => s2_t0' > s2_t0]_vars

\* a row of the ensemble is filled
S2RowFilled ==
    /\ s2_pc = "synchr"
    /\ s2_index' = s2_index + 1
    /\ WindowFits(CurrentStart, s2_period, Len(s2_signal))

\* C27: during the reconstruction of the ensemble every sample index read
\* lies in 0..L-1: for every row i that is filled,
\* 0 <= i*period - int(delta[i]-delta[0]) and
\* i*period - int(delta[i]-delta[0]) + period - 1 < L; stated for the methods
\* whose estimate is computed
C27_EnsembleIndices ==
    [][(S2RowFilled /\ s2_arg.method \in S2ComputedMethods) =>
         LET start == s2_index * s2_period
                        - Trunc10(Delta2(s2_delta, s2_index + 1).d10)
         IN 0 <= start /\ start + s2_period - 1 < Len(s2_signal)]_vars

\* the upper half of C27, for every method
C27_UpperBound ==
    [][S2RowFilled =>
         s2_index * s2_period - Trunc10(Delta2(s2_delta, s2_index + 1).d10)
            + s2_period - 1 < Len(s2_signal)]_vars

\* C28: with compens false and a signal of length L >= period,
\* synchronisation2 returns exactly floor(L / period) deltas for every
\* method, the k-th delta being estimated on the window
\* signal[k*period .. (k+1)*period - 1]; stated for the methods whose
\* estimate is computed
C28_DeltaCount ==
    (S2Called /\ S2ValidArguments /\ ~s2_arg.compens
       /\ s2_arg.method \in S2ComputedMethods
       /\ Len(s2_signal) >= s2_arg.period.P)
        => /\ s2_pc # "raised"
           /\ s2_pc = "loop" => s2_t0 = S2Iteration * s2_period
           /\ s2_pc = "returned" =>
                Len(s2_ret.delta) = Len(s2_signal) \div s2_arg.period.P

\* C28 for every method, on the calls that do not raise
C28_OnReturn ==
    (S2Called /\ ~s2_arg.compens)
        => /\ s2_pc = "loop" => s2_t0 = S2Iteration * s2_period
           /\ s2_pc = "returned" =>
                Len(s2_ret.delta) = Len(s2_signal) \div s2_arg.period.P


---------------------------------------------------------------------------
(* circShift: composition of whole shifts *)

\* the second call, with a shift of its own, has returned
CsAgainReturned == cs_call = 3 /\ cs_pc = "returned"

\* lines 105-117 on every row: what circShift returns for the array d and the
\* whole shifts t, one per row
CircShiftWhole(d, t) ==
    [ndim |-> d.ndim,
     rows |-> [r \in 1..Len(d.rows) |->
                 ShiftedRow(d.rows[r], NormalizedShift(t[r], Len(d.rows[r])))]]

\* the whole shift a of row r in the first call, b in the second call
CsFirstShift(r) == CsArgShift(r) \div 2
CsSecondShift(r) == cs_shift.v[r] \div 2

\* C29: for a real signal of length N and whole shifts a and b,
\* circShift(circShift(signal, a), b) equals circShift(signal, a + b), and
\* circShift(signal, a + k*N) equals circShift(signal, a) for every whole k.
C29_ShiftsCompose ==
    (CsAgainReturned /\ ~cs_arg.forceft /\ CsWholeShifts /\ RealArray(CsArgDatas)) =>
        /\ cs_ret = CircShiftWhole(CsArgDatas,
                       [r \in 1..Len(CsArgDatas.rows) |->
                           CsFirstShift(r) + CsSecondShift(r)])
        /\ \A k \in -CsMaxShift..CsMaxShift :
              cs_first = CircShiftWhole(CsArgDatas,
                            [r \in 1..Len(CsArgDatas.rows) |->
                                CsFirstShift(r) + k * Len(CsArgDatas.rows[r])])

\* two positive shifts of a real row of CsMaxLen samples that add up to more
\* than its length: the result is neither the signal nor its first shift
C29_Witness ==
    /\ CsAgainReturned
    /\ ~cs_arg.forceft
    /\ cs_arg.shift.scalar
    /\ CsWholeShifts
    /\ RealArray(CsArgDatas)
    /\ Len(CsArgDatas.rows[1]) = CsMaxLen
    /\ CsFirstShift(1) > 0
    /\ CsSecondShift(1) > 0
    /\ CsFirstShift(1) + CsSecondShift(1) > CsMaxLen
    /\ cs_ret # CsArgDatas
    /\ cs_ret # cs_first


---------------------------------------------------------------------------
(* part_2 of globalMinMax: arguments *)

P2MaxLen == 5
P2MaxMinS == 1

\* lines 240, 248: nb_iter=3
P2NbIter == 3

\* the gaps between detected extrema
P2Samples == {1, 3, 4}

\* globalMinMax calls part_2(ecart, nb_iter=3, min_s=int(np.ceil(len(ecart)/10)))
\* with ecart = np.diff(pmin), which is empty when fewer than two minima
\* were found
Part2Args ==
    [signal : UNION {[1..n -> P2Samples] : n \in 0..P2MaxLen},
     nb_iter : 0..P2NbIter,
     min_s : 0..P2MaxMinS]

---------------------------------------------------------------------------
(* part_2: helpers *)

\* the values of a non-empty array
ValuesOf(s) == {s[i] : i \in 1..Len(s)}

\* lines 134, 150: np.min(signal), np.max(signal)
NpMin(s) == CHOOSE x \in ValuesOf(s) : \A y \in ValuesOf(s) : x <= y
NpMax(s) == CHOOSE x \in ValuesOf(s) : \A y \in ValuesOf(s) : x >= y

\* line 143: np.mean(signal[pc])
NpMean(s) == Rat(SumSeq(s), Len(s))

\* lines 138-139: x < center and x > center, where center = (ec1 + ec2) / 2
BelowCenter(x, ec1, ec2) == 2 * x * ec1.d * ec2.d < ec1.n * ec2.d + ec2.n * ec1.d
AboveCenter(x, ec1, ec2) == 2 * x * ec1.d * ec2.d > ec1.n * ec2.d + ec2.n * ec1.d

\* lines 139, 143: signal[pc1] and signal[pc2]
Cluster1(s, ec1, ec2) == LET Lt(x) == BelowCenter(x, ec1, ec2) IN SelectSeq(s, Lt)
Cluster2(s, ec1, ec2) == LET Gt(x) == AboveCenter(x, ec1, ec2) IN SelectSeq(s, Gt)

\* line 141: len(pc1) > min_s and len(pc2) > min_s
BothClustersLarge ==
    /\ Len(Cluster1(p2_signal, p2_ec1, p2_ec2)) > p2_arg.min_s
    /\ Len(Cluster2(p2_signal, p2_ec1, p2_ec2)) > p2_arg.min_s

\* lines 146-149: the cluster the working set is reduced to
KeptCluster ==
    IF Len(Cluster1(p2_signal, p2_ec1, p2_ec2)) <= p2_arg.min_s
    THEN Cluster2(p2_signal, p2_ec1, p2_ec2)
    ELSE Cluster1(p2_signal, p2_ec1, p2_ec2)

---------------------------------------------------------------------------
(* part_2: actions *)

P2Others == <<sa_vars, cs_vars, pd_vars, s2_vars>>

\* lines 134, 150: np.min of an empty array
P2Raise ==
    /\ p2_pc' = "raised"
    /\ p2_err' = [type |-> "ValueError",
                  msg |-> "zero-size array to reduction operation minimum which has no identity"]

\* line 134: np.min(signal) on an empty signal
P2RaiseEmpty ==
    /\ p2_pc = "entry"
    /\ p2_signal = <<>>
    /\ P2Raise
    /\ UNCHANGED <<p2_arg, p2_signal, p2_ec1, p2_ec2, p2_iter, p2_updates,
                   p2_cancels, p2_ret>>
    /\ UNCHANGED P2Others

\* lines 134-136
P2Setup ==
    /\ p2_pc = "entry"
    /\ p2_signal # <<>>
    /\ p2_ec1' = RatOfInt(NpMin(p2_signal))
    /\ p2_ec2' = RatOfInt(NpMax(p2_signal))
    /\ p2_iter' = 0
    /\ p2_pc' = "loop"
    /\ UNCHANGED <<p2_arg, p2_signal, p2_updates, p2_cancels, p2_err, p2_ret>>
    /\ UNCHANGED P2Others

\* lines 137-143, 152: both clusters are large enough, the centers move
P2Update ==
    /\ p2_pc = "loop"
    /\ p2_iter < p2_arg.nb_iter
    /\ BothClustersLarge
    /\ p2_ec1' = NpMean(Cluster1(p2_signal, p2_ec1, p2_ec2))
    /\ p2_ec2' = NpMean(Cluster2(p2_signal, p2_ec1, p2_ec2))
    /\ p2_iter' = p2_iter + 1
    /\ p2_updates' = p2_updates + 1
    /\ UNCHANGED <<p2_arg, p2_pc, p2_signal, p2_cancels, p2_err, p2_ret>>
    /\ UNCHANGED P2Others

\* mutation of P2Cancel: the iteration is not cancelled (iter=iter-1 is left out)
P2CancelCounted ==
    /\ p2_pc = "loop"
    /\ p2_iter < p2_arg.nb_iter
    /\ ~BothClustersLarge
    /\ KeptCluster # <<>>
    /\ p2_signal' = KeptCluster
    /\ p2_ec1' = RatOfInt(NpMin(KeptCluster))
    /\ p2_ec2' = RatOfInt(NpMax(KeptCluster))
    /\ p2_iter' = p2_iter + 1
    /\ p2_cancels' = p2_cancels + 1
    /\ UNCHANGED <<p2_arg, p2_pc, p2_updates, p2_err, p2_ret>>
    /\ UNCHANGED P2Others

\* lines 137-141, 144-152: a cluster is too small, the working set is reduced
\* to the other one and the iteration is cancelled
P2Cancel ==
    /\ p2_pc = "loop"
    /\ p2_iter < p2_arg.nb_iter
    /\ ~BothClustersLarge
    /\ KeptCluster # <<>>
    /\ p2_signal' = KeptCluster
    /\ p2_ec1' = RatOfInt(NpMin(KeptCluster))
    /\ p2_ec2' = RatOfInt(NpMax(KeptCluster))
    /\ p2_iter' = (p2_iter - 1) + 1
    /\ p2_cancels' = p2_cancels + 1
    /\ UNCHANGED <<p2_arg, p2_pc, p2_updates, p2_err, p2_ret>>
    /\ UNCHANGED P2Others

\* lines 137-141, 144-150: the kept cluster is empty, np.min(signal) raises
P2CancelEmpty ==
    /\ p2_pc = "loop"
    /\ p2_iter < p2_arg.nb_iter
    /\ ~BothClustersLarge
    /\ KeptCluster = <<>>
    /\ p2_signal' = KeptCluster
    /\ p2_cancels' = p2_cancels + 1
    /\ P2Raise
    /\ UNCHANGED <<p2_arg, p2_ec1, p2_ec2, p2_iter, p2_updates, p2_ret>>
    /\ UNCHANGED P2Others

\* lines 137, 154: return ec1,ec2
P2Return ==
    /\ p2_pc = "loop"
    /\ ~(p2_iter < p2_arg.nb_iter)
    /\ p2_ret' = [arity |-> 2, ec1 |-> p2_ec1, ec2 |-> p2_ec2]
    /\ p2_pc' = "returned"
    /\ UNCHANGED <<p2_arg, p2_signal, p2_ec1, p2_ec2, p2_iter, p2_updates,
                   p2_cancels, p2_err>>
    /\ UNCHANGED P2Others

InitPart2 ==
    /\ p2_arg \in Part2Args
    /\ p2_pc = "entry"
    /\ p2_signal = p2_arg.signal
    /\ p2_ec1 = RatOfInt(0)
    /\ p2_ec2 = RatOfInt(0)
    /\ p2_iter = 0
    /\ p2_updates = 0
    /\ p2_cancels = 0
    /\ p2_err = NoError
    /\ p2_ret = NoResult
    /\ SaIdle
    /\ CsIdle
    /\ PdIdle
    /\ S2Idle

NextPart2 ==
    \/ P2RaiseEmpty
    \/ P2Setup
    \/ P2Update
    \/ P2Cancel
    \/ P2CancelEmpty
    \/ P2Return

SpecPart2 == InitPart2 /\ [][NextPart2]_vars

\* a call in progress is not suspended for ever: the procedure is sequential
SpecPart2Fair == SpecPart2 /\ WF_vars(NextPart2)

---------------------------------------------------------------------------
(* part_2: properties *)

P2Returned == p2_pc = "returned"
P2Failed == p2_pc = "raised"

\* x <= y for two rationals
RatLeq(x, y) == x.n * y.d <= y.n * x.d

\* a step that cancels an iteration
P2Cancels == p2_cancels' = p2_cancels + 1

\* C30: part_2 terminates on every finite input sequence, by returning or by
\* failing once the working set is empty; every cancelled iteration strictly
\* shrinks the working set; exactly nb_iter iterations that update the
\* centers are made before returning; the returned centers satisfy
\* ec1 <= ec2.
C30_Part2Terminates ==
    /\ <>(P2Returned \/ (P2Failed /\ p2_signal = <<>>))
    /\ [][P2Cancels => Len(p2_signal') < Len(p2_signal)]_vars
    /\ [](P2Returned =>
            /\ p2_updates = p2_arg.nb_iter
            /\ RatLeq(p2_ret.ec1, p2_ret.ec2))

\* a call that returned after cancelled iterations and P2NbIter updates,
\* with distinct centers
C30_Witness ==
    /\ P2Returned
    /\ p2_cancels >= 1
    /\ p2_updates = P2NbIter
    /\ p2_ret.ec1 # p2_ret.ec2

===========================================================================
